---- MODULE Spec2Model ----
(***************************************************************************)
(* Appointment scheduling and automation subsystem of the WhatsApp CRM     *)
(* backend (src/src/index.js).                                             *)
(*                                                                         *)
(* The store (the Supabase tables) is the shared state.  Every request     *)
(* handler and every cron pass is a process whose steps are the store or   *)
(* gateway calls it awaits: between two awaits of one process any other    *)
(* process may run, so every store state between two steps is a state      *)
(* other operations can read.                                              *)
(*                                                                         *)
(* Instants are whole minutes since the epoch: day = t \div 1440,          *)
(* minute of the UTC day = t % 1440.                                       *)
(***************************************************************************)
EXTENDS Integers, Sequences, FiniteSets, TLC

VARIABLES
    businesses,        \* table businesses: id -> row
    customers,         \* table customers: sequence of rows, id = index
    servicesTable,     \* table services: id -> row
    appointments,      \* table appointments: id -> row (ids never reused)
    nextApptId,        \* the id the next inserted appointment gets
    apptServices,      \* table appointment_services: set of rows
    messages,          \* table messages: sequence of rows, id = index
    automation_rules,  \* table automation_rules: id -> row
    automation_logs,   \* table automation_logs: (appointment, rule) -> rows
    now,               \* the UTC clock, in minutes
    handlers,          \* the request handlers in flight: slot -> locals
    scanners,          \* the automation cron passes in flight: slot -> locals
    jobs,              \* the no-show and retry passes in flight: locals
    calls,             \* the helper function being evaluated: arguments, result
    ghost              \* history kept for the properties, never read by code

storeVars == <<businesses, customers, servicesTable, appointments, nextApptId,
               apptServices, messages, automation_rules, automation_logs>>
vars == <<businesses, customers, servicesTable, appointments, nextApptId,
          apptServices, messages, automation_rules, automation_logs, now,
          handlers, scanners, jobs, calls, ghost>>

(***************************************************************************)
(* Bounds of the model                                                     *)
(***************************************************************************)
MaxRequests == 3       \* requests ever started
MaxAutoRequests == 2   \* requests ever started in the reminder specifications
MaxTime == 4           \* the clock stops here
MaxLogRows == 2        \* automation_logs rows per (appointment, rule)
MaxRetryPasses == 2    \* passes of the retry scan
MaxDuration == 31      \* minutes an appointment lasts in the helper checks
MaxGridStarts == 6     \* slot boundaries of the day the load checks start at

Handlers == {1, 2}
Scanners == {1, 2}
Businesses == {1}

(***************************************************************************)
(* Program constants and pure helpers                                      *)
(***************************************************************************)
SLOT_SIZE_MINUTES == 15
MINUTES_PER_DAY == 1440
DEFAULT_MAX_PER_SLOT == 1
DEFAULT_NO_SHOW_GRACE == 30
RETENTION_DAYS == 5
RETRY_CEILING == 3
RETRY_BATCH == 10

\* a nullable column: <<>> is null, <<v>> is the value v
Null == <<>>
Some(v) == <<v>>
\* the ?? operator
Nullish(v, default) == IF v = Null THEN default ELSE v[1]

Range(seq) == {seq[i] : i \in DOMAIN seq}

\* a total that counts the first service only
SumDurations_FirstOnly(services) ==
    IF services = <<>> THEN 0 ELSE Head(services).duration_minutes

RECURSIVE SumDurations(_)
SumDurations(services) ==
    IF services = <<>> THEN 0
    ELSE Head(services).duration_minutes + SumDurations(Tail(services))

\* Math.ceil(a / b) for b > 0 (\div rounds down)
CeilDiv(a, b) == -((-a) \div b)

DayOf(t) == t \div MINUTES_PER_DAY
\* date.getUTCHours() * 60 + date.getUTCMinutes()
UTCMinutes(t) == t % MINUTES_PER_DAY

minutesToSlotIndex(minutes) == minutes \div SLOT_SIZE_MINUTES

\* a range that rounds the slot count down
getSlotRange_FloorCount(startMinutes, durationMinutes) ==
    LET startSlot == minutesToSlotIndex(startMinutes)
        slotCount == durationMinutes \div SLOT_SIZE_MINUTES
    IN  [i \in 1..slotCount |-> startSlot + (i - 1)]

\* Array.from({length: slotCount}, (_, i) => startSlot + i); a length <= 0
\* gives the empty array
getSlotRange(startMinutes, durationMinutes) ==
    LET startSlot == minutesToSlotIndex(startMinutes)
        slotCount == CeilDiv(durationMinutes, SLOT_SIZE_MINUTES)
    IN  [i \in 1..slotCount |-> startSlot + (i - 1)]

\* the slots of one row, lines 86-93
SlotsOfRow(a) ==
    Range(getSlotRange(UTCMinutes(a.appointment_time), a.duration_minutes))

\* a load map that counts a row in its first slot only
buildSlotLoadMap_FirstSlotOnly(rows) ==
    LET first(a) == {minutesToSlotIndex(UTCMinutes(a.appointment_time))}
    IN  [slot \in UNION {first(a) : a \in rows} |->
            Cardinality({a \in rows : slot \in first(a)})]

\* the object slotLoad: an entry for every slot some row covers, holding
\* the number of rows that cover it; rows is a set of appointment rows
\* (each row counts once, equal times or not)
buildSlotLoadMap(rows) ==
    [slot \in UNION {SlotsOfRow(a) : a \in rows} |->
        Cardinality({a \in rows : slot \in SlotsOfRow(a)})]

\* slotLoad[slot] || 0
LoadAt(slotLoad, slot) ==
    IF slot \in DOMAIN slotLoad THEN slotLoad[slot] ELSE 0

(***************************************************************************)
(* Store queries                                                           *)
(***************************************************************************)
ApptRows == {appointments[i] : i \in DOMAIN appointments}

\* .from('customers').select('*').eq('business_id', b).eq('phone', p).single():
\* the row when exactly one matches, null (0) when none or several match
FindCustomer(b, p) ==
    LET ids == {i \in DOMAIN customers :
                   customers[i].business_id = b /\ customers[i].phone = p}
    IN  IF Cardinality(ids) = 1 THEN CHOOSE i \in ids : TRUE ELSE 0

\* a day query that forgets .neq('id', exclude)
DayAppointments_NoExclusion(b, t, exclude) ==
    {a \in {appointments[i] : i \in DOMAIN appointments} :
        /\ a.business_id = b
        /\ a.status = "scheduled"
        /\ a.appointment_time \div MINUTES_PER_DAY = t \div MINUTES_PER_DAY}

\* the scheduled appointments of business b on the UTC day of instant t,
\* .neq('id', exclude) when exclude is an id (0: no exclusion)
DayAppointments(b, t, exclude) ==
    {a \in ApptRows :
        /\ a.business_id = b
        /\ a.status = "scheduled"
        /\ a.id # exclude
        /\ DayOf(a.appointment_time) = DayOf(t)}

LineItems(apptId) == {s \in apptServices : s.appointment_id = apptId}

\* a capacity loop that lets a slot fill one past the limit
SlotsFree_OffByOne(slotLoad, slot_minutes, totalDurationMinutes, maxPerSlot) ==
    LET startSlotIndex == slot_minutes \div SLOT_SIZE_MINUTES
        requiredSlots == CeilDiv(totalDurationMinutes, SLOT_SIZE_MINUTES)
    IN  \A i \in 0..(requiredSlots - 1) :
            ~(LoadAt(slotLoad, startSlotIndex + i) > maxPerSlot)

\* a capacity loop that looks at the first required slot only
SlotsFree_FirstSlotOnly(slotLoad, slot_minutes, totalDurationMinutes, maxPerSlot) ==
    LET startSlotIndex == slot_minutes \div SLOT_SIZE_MINUTES
    IN  ~(LoadAt(slotLoad, startSlotIndex) >= maxPerSlot)

\* the capacity loop of both handlers: no required slot has load >= maxPerSlot
SlotsFree(slotLoad, slot_minutes, totalDurationMinutes, maxPerSlot) ==
    LET startSlotIndex == slot_minutes \div SLOT_SIZE_MINUTES
        requiredSlots == CeilDiv(totalDurationMinutes, SLOT_SIZE_MINUTES)
    IN  \A i \in 0..(requiredSlots - 1) :
            ~(LoadAt(slotLoad, startSlotIndex + i) >= maxPerSlot)

\* the slot indexes the capacity loop visits when no slot is full,
\* lines 529-535
RequiredSlots(slot_minutes, totalDurationMinutes) ==
    LET startSlotIndex == slot_minutes \div SLOT_SIZE_MINUTES
        requiredSlots == CeilDiv(totalDurationMinutes, SLOT_SIZE_MINUTES)
    IN  [i \in 1..requiredSlots |-> startSlotIndex + (i - 1)]

MaxPerSlotOf(b) ==
    Nullish(businesses[b].appointment_settings.max_appointments_per_slot,
            DEFAULT_MAX_PER_SLOT)

(***************************************************************************)
(* The messaging gateway                                                   *)
(***************************************************************************)
\* sendWhatsAppMessage: what the call can return: 'failed' when the POST
\* throws, otherwise the status of the response body ('submitted' when the
\* body has none); "error" stands for any other status a body carries
GatewayOutcomes == {"submitted", "failed", "error"}

(***************************************************************************)
(* Request handlers                                                        *)
(***************************************************************************)
NoTime == -1
IdleHandler ==
    [op |-> "none", pc |-> "idle", business |-> 0, phone |-> 0, name |-> "",
     services |-> <<>>, time |-> NoTime, apptId |-> 0, target |-> "",
     customer |-> 0, slot_minutes |-> 0, maxPerSlot |-> 0, total |-> 0,
     resp |-> 0, wrote |-> {}, fault |-> FALSE, body |-> <<>>,
     rows |-> {}, json |-> <<>>]

\* the locals of autoMarkNoShows and of retryFailedMessages
IdleJobs ==
    [noshow |-> [pc |-> "idle", now |-> 0, bizQueue |-> <<>>, overdueIds |-> {}],
     retry |-> [pc |-> "idle", queue |-> <<>>]]

\* the column appointment_settings of a business (a key that is absent
\* reads as null)
Settings(maxPerSlot) ==
    [reminder_24h |-> Null, reminder_2h |-> Null,
     no_show_grace_minutes |-> Null,
     max_appointments_per_slot |-> maxPerSlot]

\* the services of the tenant: two of 15 minutes
Catalogue ==
    [id \in {1, 2} |->
        [id |-> id, business_id |-> 1, name |-> "Cut",
         duration_minutes |-> 15, is_active |-> TRUE]]

\* no helper function is being evaluated
NoCall == [fn |-> ""]

JobsIdle == jobs.noshow.pc = "idle" /\ jobs.retry.pc = "idle"

Resting(h) == handlers[h].pc \in {"idle", "done"}
ScannerIdle(s) == scanners[s].pc = "idle"
\* no handler and no cron pass is between two awaits
Quiet ==
    /\ \A h \in Handlers : Resting(h)
    /\ \A s \in Scanners : ScannerIdle(s)
    /\ JobsIdle

\* a handler answers: res.status(code).json(...)
\* (the locals of the request end with it; what the properties read is kept)
Respond(h, code) ==
    [IdleHandler EXCEPT !.pc = "done", !.resp = code,
        !.op = handlers[h].op, !.apptId = handlers[h].apptId,
        !.wrote = handlers[h].wrote]

\* the requests answered so far (history for the properties);
\* ghost.archiveRuns is the parity of the archival runs so far
Tally(g, op, code) ==
    [g EXCEPT !.n200 = IF op = "book" /\ code = 200 THEN @ + 1 ELSE @,
              !.n409 = IF op = "book" /\ code = 409 THEN @ + 1 ELSE @]

\* history, where a specification keeps it: the message row whose
\* confirmation send the gateway failed (the row the request just inserted)
NoteSend(g, outcome) ==
    IF g.trackSends /\ outcome = "failed"
    THEN [g EXCEPT !.confirmFailed = @ \cup {Len(messages)}]
    ELSE g

\* history, where a specification keeps it: the scan that started last and
\* how many runs of it have started in a row (counted up to 2)
NoteRun(g, kind) ==
    IF g.trackRuns
    THEN [g EXCEPT !.lastRun = kind,
                   !.runCount = IF g.lastRun = kind THEN 2 ELSE 1]
    ELSE g

CanStart(h, sequential) ==
    /\ Resting(h)
    /\ ghost.nreq < ghost.maxreq
    /\ sequential => Quiet

\* the (day, slot) of a booking that needs exactly one slot, Null otherwise
SingleSlotOf(time, total) ==
    IF time # NoTime /\ CeilDiv(total, SLOT_SIZE_MINUTES) = 1
    THEN Some(<<DayOf(time), UTCMinutes(time) \div SLOT_SIZE_MINUTES>>)
    ELSE Null

(* POST /appointments ---------------------------------------------------- *)

\* payload validation, lines 425-441
BookStart(h, sequential, b, phone, name, services, time) ==
    /\ CanStart(h, sequential)
    /\ LET total == SumDurations(services)
           bad1 == phone = 0 \/ time = NoTime \/ Len(services) = 0
           bad2 == total <= 0
           slot == SingleSlotOf(time, total)
           req == [IdleHandler EXCEPT !.op = "book", !.business = b,
                      !.phone = phone, !.name = name, !.services = services,
                      !.time = time, !.total = total]
       IN  /\ handlers' = [handlers EXCEPT ![h] =
                  IF bad1 \/ bad2
                  THEN [req EXCEPT !.pc = "done", !.resp = 400]
                  ELSE [req EXCEPT !.pc = "b_findCustomer"]]
           /\ ghost' = [ghost EXCEPT
                  !.nreq = @ + 1,
                  !.pure = /\ @
                           /\ ~(bad1 \/ bad2)
                           /\ slot # Null
                           /\ ghost.slot \in {Null, slot},
                  !.slot = IF @ = Null THEN slot ELSE @]
    /\ UNCHANGED <<calls, jobs, storeVars, now, scanners>>

\* find the customer, lines 448-455 and 471
BookFindCustomer(h) ==
    /\ handlers[h].pc = "b_findCustomer"
    /\ LET r == handlers[h]
           c == FindCustomer(r.business, r.phone)
       IN  handlers' = [handlers EXCEPT ![h] =
               [r EXCEPT !.customer = c,
                         !.pc = IF c = 0 THEN "b_createCustomer"
                                ELSE IF customers[c].name = "" /\ r.name # ""
                                     THEN "b_backfillName"
                                     ELSE "b_settings"]]
    /\ UNCHANGED <<calls, jobs, storeVars, now, scanners, ghost>>

\* insert the customer, lines 456-470
BookCreateCustomer(h) ==
    /\ handlers[h].pc = "b_createCustomer"
    /\ LET r == handlers[h]
       IN  /\ customers' = Append(customers,
                  [business_id |-> r.business, phone |-> r.phone,
                   name |-> r.name])
           /\ handlers' = [handlers EXCEPT ![h] =
                  [r EXCEPT !.customer = Len(customers) + 1,
                            !.pc = "b_settings",
                            !.wrote = @ \cup {"customers"}]]
    /\ UNCHANGED <<calls, servicesTable, jobs, businesses, appointments, nextApptId, apptServices,
                   messages, automation_rules, automation_logs, now,
                   scanners, ghost>>

\* backfill the name, lines 471-477
BookBackfillName(h) ==
    /\ handlers[h].pc = "b_backfillName"
    /\ LET r == handlers[h]
       IN  /\ customers' = [customers EXCEPT ![r.customer].name = r.name]
           /\ handlers' = [handlers EXCEPT ![h] =
                  [r EXCEPT !.pc = "b_settings",
                            !.wrote = @ \cup {"customers"}]]
    /\ UNCHANGED <<calls, servicesTable, jobs, businesses, appointments, nextApptId, apptServices,
                   messages, automation_rules, automation_logs, now,
                   scanners, ghost>>

\* slot_minutes and the business settings, lines 483-503
BookReadSettings(h) ==
    /\ handlers[h].pc = "b_settings"
    /\ LET r == handlers[h]
       IN  handlers' = [handlers EXCEPT ![h] =
               [r EXCEPT !.slot_minutes = UTCMinutes(r.time),
                         !.maxPerSlot = MaxPerSlotOf(r.business),
                         !.pc = "b_capacity"]]
    /\ UNCHANGED <<calls, jobs, storeVars, now, scanners, ghost>>

\* the day's appointments and the capacity check, lines 510-543
BookCheckCapacity(h) ==
    /\ handlers[h].pc = "b_capacity"
    /\ LET r == handlers[h]
           existingAppointments == DayAppointments(r.business, r.time, 0)
           slotLoad == buildSlotLoadMap(existingAppointments)
           free == SlotsFree(slotLoad, r.slot_minutes, r.total, r.maxPerSlot)
       IN  /\ handlers' = [handlers EXCEPT ![h] =
                  IF free THEN [r EXCEPT !.pc = "b_insert"]
                  ELSE Respond(h, 409)]
           /\ ghost' = IF free THEN ghost ELSE Tally(ghost, "book", 409)
    /\ UNCHANGED <<calls, jobs, storeVars, now, scanners>>

\* insert the appointment row, lines 549-566
BookInsertAppointment(h) ==
    /\ handlers[h].pc = "b_insert"
    /\ LET r == handlers[h]
       IN  /\ appointments' = (nextApptId :>
                  [id |-> nextApptId, business_id |-> r.business,
                   customer_id |-> r.customer, appointment_time |-> r.time,
                   slot_minutes |-> r.slot_minutes,
                   duration_minutes |-> r.total, status |-> "scheduled",
                   archived_at |-> Null]) @@ appointments
           /\ nextApptId' = nextApptId + 1
           /\ handlers' = [handlers EXCEPT ![h] =
                  [r EXCEPT !.apptId = nextApptId, !.pc = "b_services",
                            !.wrote = @ \cup {"appointments"}]]
           /\ ghost' = [ghost EXCEPT
                  !.bookedAt = (nextApptId :> now) @@ @]
    /\ UNCHANGED <<calls, servicesTable, jobs, businesses, customers, apptServices, messages,
                   automation_rules, automation_logs, now, scanners>>

\* insert the line items, lines 568-578; the store call succeeds or fails
BookInsertServices(h) ==
    /\ handlers[h].pc = "b_services"
    /\ LET r == handlers[h]
       IN  \/ /\ apptServices' = apptServices \cup
                     {[appointment_id |-> r.apptId, line |-> i,
                       service_id |-> r.services[i].service_id,
                       duration_minutes |-> r.services[i].duration_minutes] :
                      i \in DOMAIN r.services}
              /\ handlers' = [handlers EXCEPT ![h] =
                     [r EXCEPT !.pc = "b_logMessage",
                               !.wrote = @ \cup {"appointment_services"}]]
              /\ ghost' = ghost
           \/ /\ apptServices' = apptServices
              /\ handlers' = [handlers EXCEPT ![h] =
                     [r EXCEPT !.pc = "b_rollback", !.fault = TRUE]]
              /\ ghost' = [ghost EXCEPT !.pure = FALSE]
    /\ UNCHANGED <<calls, servicesTable, jobs, businesses, customers, appointments, nextApptId, messages,
                   automation_rules, automation_logs, now, scanners>>

\* the compensating delete, lines 579-585
BookRollback(h) ==
    /\ handlers[h].pc = "b_rollback"
    /\ LET r == handlers[h]
       IN  /\ appointments' = [i \in DOMAIN appointments \ {r.apptId} |->
                                  appointments[i]]
           /\ handlers' = [handlers EXCEPT ![h] = Respond(h, 500)]
    /\ UNCHANGED <<calls, servicesTable, jobs, businesses, customers, nextApptId, apptServices, messages,
                   automation_rules, automation_logs, now, scanners, ghost>>

\* sendAndLogSystemMessage, step 1: the messages row, lines 173-183
LogSystemMessage(h, next) ==
    /\ messages' = Append(messages,
           [customer_id |-> handlers[h].customer, direction |-> "out",
            status |-> "sent", message_type |-> "system", retry_count |-> 0,
            error |-> Null])
    /\ handlers' = [handlers EXCEPT ![h] =
           [@ EXCEPT !.pc = next, !.wrote = @ \cup {"messages"}]]

BookLogMessage(h) ==
    /\ handlers[h].pc = "b_logMessage"
    /\ LogSystemMessage(h, "b_send")
    /\ UNCHANGED <<calls, servicesTable, jobs, businesses, customers, appointments, nextApptId,
                   apptServices, automation_rules, automation_logs, now,
                   scanners, ghost>>

\* sendAndLogSystemMessage, step 2: the gateway send, whose result is
\* dropped (line 191); then res.json(appointment), line 617
BookSend(h) ==
    /\ handlers[h].pc = "b_send"
    /\ \E outcome \in GatewayOutcomes :
           /\ handlers' = [handlers EXCEPT ![h] = Respond(h, 200)]
           /\ ghost' = NoteSend(Tally(ghost, "book", 200), outcome)
    /\ UNCHANGED <<calls, jobs, storeVars, now, scanners>>

(* PATCH /appointments/:id/reschedule-slot ------------------------------- *)

\* line 1295
ReschedStart(h, sequential, b, apptId, time) ==
    /\ CanStart(h, sequential)
    /\ LET req == [IdleHandler EXCEPT !.op = "reschedule", !.business = b,
                      !.apptId = apptId, !.time = time]
       IN  handlers' = [handlers EXCEPT ![h] =
               IF time = NoTime
               THEN [req EXCEPT !.pc = "done", !.resp = 400]
               ELSE [req EXCEPT !.pc = "r_load"]]
    /\ ghost' = [ghost EXCEPT !.nreq = @ + 1, !.pure = FALSE]
    /\ UNCHANGED <<calls, jobs, storeVars, now, scanners>>

\* the appointment must belong to the business, lines 1302-1311
ReschedLoadAppointment(h) ==
    /\ handlers[h].pc = "r_load"
    /\ LET r == handlers[h]
           found == /\ r.apptId \in DOMAIN appointments
                    /\ appointments[r.apptId].business_id = r.business
       IN  handlers' = [handlers EXCEPT ![h] =
               IF found THEN [r EXCEPT !.pc = "r_services"]
               ELSE Respond(h, 404)]
    /\ UNCHANGED <<calls, jobs, storeVars, now, scanners, ghost>>

\* services.reduce over the stored line items, lines 1327-1330
RECURSIVE SumLineItems(_)
SumLineItems(S) ==
    IF S = {} THEN 0
    ELSE LET x == CHOOSE x \in S : TRUE
         IN  x.duration_minutes + SumLineItems(S \ {x})

\* the duration from the stored line items, lines 1316-1330
ReschedLoadServices(h) ==
    /\ handlers[h].pc = "r_services"
    /\ LET r == handlers[h]
           services == LineItems(r.apptId)
       IN  handlers' = [handlers EXCEPT ![h] =
               IF services = {} THEN Respond(h, 400)
               ELSE [r EXCEPT !.total = SumLineItems(services),
                              !.pc = "r_settings"]]
    /\ UNCHANGED <<calls, jobs, storeVars, now, scanners, ghost>>

\* slot_minutes and the business settings, lines 1335-1349
ReschedReadSettings(h) ==
    /\ handlers[h].pc = "r_settings"
    /\ LET r == handlers[h]
       IN  handlers' = [handlers EXCEPT ![h] =
               [r EXCEPT !.slot_minutes = UTCMinutes(r.time),
                         !.maxPerSlot = MaxPerSlotOf(r.business),
                         !.pc = "r_capacity"]]
    /\ UNCHANGED <<calls, jobs, storeVars, now, scanners, ghost>>

\* a capacity check that clears the reminder log before it answers 409
ReschedCheckCapacity_ClearsLogsFirst(h) ==
    /\ handlers[h].pc = "r_capacity"
    /\ LET r == handlers[h]
           existingAppointments ==
               DayAppointments(r.business, r.time, r.apptId)
           slotLoad == buildSlotLoadMap(existingAppointments)
           free == SlotsFree(slotLoad, r.slot_minutes, r.total, r.maxPerSlot)
       IN  /\ handlers' = [handlers EXCEPT ![h] =
                  IF free THEN [r EXCEPT !.pc = "r_update"]
                  ELSE Respond(h, 409)]
           /\ automation_logs' =
                  [k \in {k \in DOMAIN automation_logs : k[1] # r.apptId} |->
                      automation_logs[k]]
    /\ UNCHANGED <<calls, servicesTable, jobs, businesses, customers,
                   appointments, nextApptId, apptServices, messages,
                   automation_rules, now, scanners, ghost>>

\* the day's other appointments and the capacity check, lines 1355-1391
ReschedCheckCapacity(h) ==
    /\ handlers[h].pc = "r_capacity"
    /\ LET r == handlers[h]
           existingAppointments ==
               DayAppointments(r.business, r.time, r.apptId)
           slotLoad == buildSlotLoadMap(existingAppointments)
           free == SlotsFree(slotLoad, r.slot_minutes, r.total, r.maxPerSlot)
       IN  handlers' = [handlers EXCEPT ![h] =
               IF free THEN [r EXCEPT !.pc = "r_update"]
               ELSE Respond(h, 409)]
    /\ UNCHANGED <<calls, jobs, storeVars, now, scanners, ghost>>

\* the update, lines 1398-1412; .single() fails when the row is gone
ReschedUpdate(h) ==
    /\ handlers[h].pc = "r_update"
    /\ LET r == handlers[h]
       IN  IF r.apptId \in DOMAIN appointments
           THEN /\ appointments' = [appointments EXCEPT ![r.apptId] =
                       [@ EXCEPT !.appointment_time = r.time,
                                 !.slot_minutes = r.slot_minutes,
                                 !.duration_minutes = r.total,
                                 !.status = "scheduled"]]
                /\ handlers' = [handlers EXCEPT ![h] =
                       [r EXCEPT !.customer =
                                     appointments[r.apptId].customer_id,
                                 !.pc = "r_logMessage",
                                 !.wrote = @ \cup {"appointments"}]]
                /\ ghost' = [ghost EXCEPT
                       !.moved = @ \cup {r.apptId},
                       !.sent = [k \in {k \in DOMAIN @ : k[1] # r.apptId} |->
                                    @[k]]]
           ELSE /\ appointments' = appointments
                /\ handlers' = [handlers EXCEPT ![h] = Respond(h, 500)]
                /\ ghost' = ghost
    /\ UNCHANGED <<calls, servicesTable, jobs, businesses, customers, nextApptId, apptServices, messages,
                   automation_rules, automation_logs, now, scanners>>

\* the notification, lines 1430-1434
ReschedLogMessage(h) ==
    /\ handlers[h].pc = "r_logMessage"
    /\ LogSystemMessage(h, "r_send")
    /\ UNCHANGED <<calls, servicesTable, jobs, businesses, customers, appointments, nextApptId,
                   apptServices, automation_rules, automation_logs, now,
                   scanners, ghost>>

ReschedSend(h) ==
    /\ handlers[h].pc = "r_send"
    /\ \E outcome \in GatewayOutcomes :
           /\ handlers' = [handlers EXCEPT ![h].pc = "r_clearLogs"]
           /\ ghost' = NoteSend(ghost, outcome)
    /\ UNCHANGED <<calls, jobs, storeVars, now, scanners>>

\* a reschedule that leaves the log rows
ClearLogs_KeepsRows(apptId) == automation_logs

\* the delete of the appointment's rows of automation_logs
ClearLogs(apptId) ==
    [k \in {k \in DOMAIN automation_logs : k[1] # apptId} |->
        automation_logs[k]]

\* clear the automation logs, lines 1439-1444
ReschedClearLogs(h) ==
    /\ handlers[h].pc = "r_clearLogs"
    /\ automation_logs' = ClearLogs(handlers[h].apptId)
    /\ handlers' = [handlers EXCEPT ![h] =
           [Respond(h, 200) EXCEPT !.wrote = @ \cup {"automation_logs"}]]
    /\ ghost' = [ghost EXCEPT !.cleared = @ \cup
           {k \in DOMAIN automation_logs : k[1] = handlers[h].apptId}]
    /\ UNCHANGED <<calls, servicesTable, jobs, businesses, customers, appointments, nextApptId,
                   apptServices, messages, automation_rules, now, scanners>>

ReschedStep(h) ==
    \/ ReschedLoadAppointment(h)
    \/ ReschedLoadServices(h)
    \/ ReschedReadSettings(h)
    \/ ReschedCheckCapacity(h)
    \/ ReschedUpdate(h)
    \/ ReschedLogMessage(h)
    \/ ReschedSend(h)
    \/ ReschedClearLogs(h)

(* PATCH /appointments/:id/status ---------------------------------------- *)
allowedStatuses == {"completed", "no_show", "cancelled"}

\* lines 1095-1101
StatusStart(h, sequential, b, apptId, status) ==
    /\ CanStart(h, sequential)
    /\ LET req == [IdleHandler EXCEPT !.op = "status", !.business = b,
                      !.apptId = apptId, !.target = status]
       IN  handlers' = [handlers EXCEPT ![h] =
               IF status \notin allowedStatuses
               THEN [req EXCEPT !.pc = "done", !.resp = 400]
               ELSE [req EXCEPT !.pc = "s_load"]]
    /\ ghost' = [ghost EXCEPT !.nreq = @ + 1, !.pure = FALSE]
    /\ UNCHANGED <<calls, jobs, storeVars, now, scanners>>

\* lines 1105-1116
StatusLoad(h) ==
    /\ handlers[h].pc = "s_load"
    /\ LET r == handlers[h]
           found == /\ r.apptId \in DOMAIN appointments
                    /\ appointments[r.apptId].business_id = r.business
       IN  handlers' = [handlers EXCEPT ![h] =
               IF found THEN [r EXCEPT !.pc = "s_update"]
               ELSE Respond(h, 404)]
    /\ UNCHANGED <<calls, jobs, storeVars, now, scanners, ghost>>

\* lines 1119-1131
StatusUpdate(h) ==
    /\ handlers[h].pc = "s_update"
    /\ LET r == handlers[h]
       IN  IF r.apptId \in DOMAIN appointments
           THEN /\ appointments' = [appointments EXCEPT
                       ![r.apptId].status = r.target]
                /\ handlers' = [handlers EXCEPT ![h] = Respond(h, 200)]
                /\ ghost' = [ghost EXCEPT !.touched = @ \cup {r.apptId}]
           ELSE /\ appointments' = appointments
                /\ handlers' = [handlers EXCEPT ![h] = Respond(h, 500)]
                /\ ghost' = ghost
    /\ UNCHANGED <<calls, servicesTable, jobs, businesses, customers, nextApptId, apptServices, messages,
                   automation_rules, automation_logs, now, scanners>>

StatusStep(h) == StatusLoad(h) \/ StatusUpdate(h)

(* POST /webhook/whatsapp, lines 226-298 --------------------------------- *)

\* the event filter, lines 228-243; phone 0 is a payload without a phone,
\* hasText says whether payload.payload.text is there
WebhookStart(h, sequential, eventType, phone, hasText) ==
    /\ CanStart(h, sequential)
    /\ LET req == [IdleHandler EXCEPT !.op = "webhook", !.phone = phone]
       IN  handlers' = [handlers EXCEPT ![h] =
               IF eventType # "message" \/ phone = 0 \/ ~hasText
               THEN [req EXCEPT !.pc = "done", !.resp = 200]
               ELSE [req EXCEPT !.pc = "w_business"]]
    /\ ghost' = [ghost EXCEPT !.nreq = @ + 1, !.pure = FALSE]
    /\ UNCHANGED <<calls, jobs, storeVars, now, scanners>>

\* .from('businesses').select('*').limit(1).single(), lines 248-257
WebhookBusiness(h) ==
    /\ handlers[h].pc = "w_business"
    /\ \E b \in DOMAIN businesses :
           handlers' = [handlers EXCEPT ![h] =
               [@ EXCEPT !.business = b, !.pc = "w_findCustomer"]]
    /\ UNCHANGED <<calls, jobs, storeVars, now, scanners, ghost>>

\* lines 260-265
WebhookFindCustomer(h) ==
    /\ handlers[h].pc = "w_findCustomer"
    /\ LET r == handlers[h]
           c == FindCustomer(r.business, r.phone)
       IN  handlers' = [handlers EXCEPT ![h] =
               [r EXCEPT !.customer = c,
                         !.pc = IF c = 0 THEN "w_createCustomer"
                                ELSE "w_message"]]
    /\ UNCHANGED <<calls, jobs, storeVars, now, scanners, ghost>>

\* the insert without a name, lines 267-280
WebhookCreateCustomer(h) ==
    /\ handlers[h].pc = "w_createCustomer"
    /\ LET r == handlers[h]
       IN  /\ customers' = Append(customers,
                  [business_id |-> r.business, phone |-> r.phone,
                   name |-> ""])
           /\ handlers' = [handlers EXCEPT ![h] =
                  [r EXCEPT !.customer = Len(customers) + 1,
                            !.pc = "w_message",
                            !.wrote = @ \cup {"customers"}]]
    /\ UNCHANGED <<calls, servicesTable, jobs, businesses, appointments, nextApptId,
                   apptServices, messages, automation_rules, automation_logs,
                   now, scanners, ghost>>

\* the inbound message row and the answer, lines 283-292; the row's status
\* is the column default, which the code does not set
WebhookSaveMessage(h) ==
    /\ handlers[h].pc = "w_message"
    /\ messages' = Append(messages,
           [customer_id |-> handlers[h].customer, direction |-> "in",
            status |-> "", message_type |-> "", retry_count |-> 0,
            error |-> Null])
    /\ handlers' = [handlers EXCEPT ![h] =
           [Respond(h, 200) EXCEPT !.wrote = @ \cup {"messages"}]]
    /\ UNCHANGED <<calls, servicesTable, jobs, businesses, customers, appointments,
                   nextApptId, apptServices, automation_rules,
                   automation_logs, now, scanners, ghost>>

WebhookStep(h) ==
    \/ WebhookBusiness(h)
    \/ WebhookFindCustomer(h)
    \/ WebhookCreateCustomer(h)
    \/ WebhookSaveMessage(h)

(* PATCH /services/:id, lines 387-408 ------------------------------------ *)

\* the request; name "" stands for a body without a name (or with an empty
\* one, which line 394 leaves out as well), duration_minutes 0 for a body
\* without a duration (or with duration 0, left out by line 395), is_active
\* Null for a body without a boolean is_active
ServiceEditStart(h, sequential, b, id, name, duration_minutes, is_active) ==
    /\ CanStart(h, sequential)
    /\ handlers' = [handlers EXCEPT ![h] =
           [IdleHandler EXCEPT !.op = "service", !.business = b,
               !.apptId = id, !.name = name, !.total = duration_minutes,
               !.body = is_active, !.pc = "v_update"]]
    /\ ghost' = [ghost EXCEPT !.nreq = @ + 1, !.pure = FALSE]
    /\ UNCHANGED <<calls, jobs, storeVars, now, scanners>>

\* the update with .single(), lines 391-407: the columns the body gives;
\* an update without a column returns no row, and .single() then reports an
\* error, as it does when no row matches
ServiceEditUpdate(h) ==
    /\ handlers[h].pc = "v_update"
    /\ LET r == handlers[h]
           found == /\ r.apptId \in DOMAIN servicesTable
                    /\ servicesTable[r.apptId].business_id = r.business
           written == found /\ (r.name # "" \/ r.total # 0 \/ r.body # Null)
       IN  /\ servicesTable' =
                  IF written
                  THEN [servicesTable EXCEPT ![r.apptId] =
                           [@ EXCEPT
                               !.name = IF r.name # "" THEN r.name ELSE @,
                               !.duration_minutes =
                                   IF r.total # 0 THEN r.total ELSE @,
                               !.is_active =
                                   IF r.body # Null THEN r.body[1] ELSE @]]
                  ELSE servicesTable
           /\ handlers' = [handlers EXCEPT ![h] =
                  Respond(h, IF written THEN 200 ELSE 500)]
    /\ UNCHANGED <<calls, jobs, businesses, customers, appointments,
                   nextApptId, apptServices, messages, automation_rules,
                   automation_logs, now, scanners, ghost>>

(* POST /messages/send, lines 1542-1607 ----------------------------------- *)

\* the payload, lines 1543-1548; customer_id 0 stands for a body without it
MessageSendStart(h, sequential, b, customer_id, hasText) ==
    /\ CanStart(h, sequential)
    /\ LET req == [IdleHandler EXCEPT !.op = "messageSend", !.business = b,
                      !.customer = customer_id]
       IN  handlers' = [handlers EXCEPT ![h] =
               IF customer_id = 0 \/ ~hasText
               THEN [req EXCEPT !.pc = "done", !.resp = 400]
               ELSE [req EXCEPT !.pc = "g_customer"]]
    /\ ghost' = [ghost EXCEPT !.nreq = @ + 1, !.pure = FALSE]
    /\ UNCHANGED <<calls, jobs, storeVars, now, scanners>>

\* the customer must belong to the business, lines 1551-1560
MessageSendLoadCustomer(h) ==
    /\ handlers[h].pc = "g_customer"
    /\ LET r == handlers[h]
           found == /\ r.customer \in DOMAIN customers
                    /\ customers[r.customer].business_id = r.business
       IN  handlers' = [handlers EXCEPT ![h] =
               IF found THEN [r EXCEPT !.pc = "g_insert"]
               ELSE Respond(h, 404)]
    /\ UNCHANGED <<calls, jobs, storeVars, now, scanners, ghost>>

\* the row, inserted with status pending, lines 1562-1573; message_type,
\* retry_count and error take their column defaults
MessageSendInsert(h) ==
    /\ handlers[h].pc = "g_insert"
    /\ messages' = Append(messages,
           [customer_id |-> handlers[h].customer, direction |-> "out",
            status |-> "pending", message_type |-> "", retry_count |-> 0,
            error |-> Null])
    /\ handlers' = [handlers EXCEPT ![h] =
           [@ EXCEPT !.apptId = Len(messages) + 1, !.pc = "g_send",
                     !.wrote = @ \cup {"messages"}]]
    /\ UNCHANGED <<calls, servicesTable, jobs, businesses, customers,
                   appointments, nextApptId, apptServices, automation_rules,
                   automation_logs, now, scanners, ghost>>

\* sendWhatsAppMessage, line 1581: it returns its status and never throws,
\* so the catch of lines 1592-1604 (failed, retry_count 1) is never entered
MessageSendGateway(h) ==
    /\ handlers[h].pc = "g_send"
    /\ \E outcome \in GatewayOutcomes :
           /\ handlers' = [handlers EXCEPT ![h].pc = "g_markSent"]
           /\ ghost' = IF ghost.trackSends /\ outcome = "failed"
                       THEN [ghost EXCEPT !.confirmFailed =
                                @ \cup {handlers[h].apptId}]
                       ELSE ghost
    /\ UNCHANGED <<calls, jobs, storeVars, now, scanners>>

\* update({ status: 'sent' }) and the answer, lines 1584-1590
MessageSendMarkSent(h) ==
    /\ handlers[h].pc = "g_markSent"
    /\ messages' = [messages EXCEPT ![handlers[h].apptId].status = "sent"]
    /\ handlers' = [handlers EXCEPT ![h] = Respond(h, 200)]
    /\ UNCHANGED <<calls, servicesTable, jobs, businesses, customers,
                   appointments, nextApptId, apptServices, automation_rules,
                   automation_logs, now, scanners, ghost>>

MessageSendStep(h) ==
    \/ MessageSendLoadCustomer(h)
    \/ MessageSendInsert(h)
    \/ MessageSendGateway(h)
    \/ MessageSendMarkSent(h)

(* POST /services, lines 362-385 ------------------------------------------ *)

\* the role and the payload, lines 363-371; name "" stands for a body
\* without a name, duration_minutes 0 for a body without a duration
ServiceCreateStart(h, sequential, b, role, name, duration_minutes) ==
    /\ CanStart(h, sequential)
    /\ LET req == [IdleHandler EXCEPT !.op = "serviceCreate", !.business = b,
                      !.name = name, !.total = duration_minutes]
       IN  handlers' = [handlers EXCEPT ![h] =
               IF role # "owner" THEN [req EXCEPT !.pc = "done", !.resp = 403]
               ELSE IF name = "" \/ duration_minutes = 0
               THEN [req EXCEPT !.pc = "done", !.resp = 400]
               ELSE [req EXCEPT !.pc = "c_insert"]]
    /\ ghost' = [ghost EXCEPT !.nreq = @ + 1, !.pure = FALSE]
    /\ UNCHANGED <<calls, jobs, storeVars, now, scanners>>

\* the insert, lines 373-384; is_active takes the column default
ServiceCreateInsert(h) ==
    /\ handlers[h].pc = "c_insert"
    /\ LET r == handlers[h]
           id == Cardinality(DOMAIN servicesTable) + 1
       IN  /\ servicesTable' = servicesTable @@
                  (id :> [id |-> id, business_id |-> r.business,
                          name |-> r.name, duration_minutes |-> r.total,
                          is_active |-> TRUE])
           /\ handlers' = [handlers EXCEPT ![h] =
                  [Respond(h, 200) EXCEPT !.apptId = id,
                                          !.wrote = @ \cup {"services"}]]
    /\ UNCHANGED <<calls, jobs, businesses, customers, appointments,
                   nextApptId, apptServices, messages, automation_rules,
                   automation_logs, now, scanners, ghost>>

(* POST /businesses, lines 202-224 ---------------------------------------- *)

\* the route has no authentication: 400 without name or whatsapp_number,
\* otherwise the insert; the columns the route does not set (timezone,
\* appointment_settings) are empty in the new row
BusinessCreate(h, sequential, hasName, hasNumber) ==
    /\ CanStart(h, sequential)
    /\ LET req == [IdleHandler EXCEPT !.op = "businessCreate"]
           id == Cardinality(DOMAIN businesses) + 1
       IN  IF ~hasName \/ ~hasNumber
           THEN /\ handlers' = [handlers EXCEPT ![h] =
                       [req EXCEPT !.pc = "done", !.resp = 400]]
                /\ businesses' = businesses
           ELSE /\ handlers' = [handlers EXCEPT ![h] =
                       [req EXCEPT !.pc = "done", !.resp = 200,
                                   !.business = id,
                                   !.wrote = {"businesses"}]]
                /\ businesses' = businesses @@
                       (id :> [timezone |-> "",
                               appointment_settings |-> Settings(Null)])
    /\ ghost' = [ghost EXCEPT !.nreq = @ + 1, !.pure = FALSE]
    /\ UNCHANGED <<calls, servicesTable, jobs, customers, appointments,
                   nextApptId, apptServices, messages, automation_rules,
                   automation_logs, now, scanners>>

(* GET /appointments/availability, lines 1198-1284 ----------------------- *)

\* a loop that stops one start early
AvailabilityOf_StopsEarly(slotLoad, durationMinutes, maxPerSlot) ==
    [startMinutes \in
        {SLOT_SIZE_MINUTES * k : k \in
            {k \in 0..(MINUTES_PER_DAY \div SLOT_SIZE_MINUTES) :
                SLOT_SIZE_MINUTES * k + durationMinutes < MINUTES_PER_DAY}} |->
        \A i \in DOMAIN getSlotRange(startMinutes, durationMinutes) :
            LoadAt(slotLoad, getSlotRange(startMinutes, durationMinutes)[i])
                < maxPerSlot]

\* the object availability, lines 1261-1278: one entry per start of the
\* loop, true when every required slot has room
AvailabilityOf(slotLoad, durationMinutes, maxPerSlot) ==
    [startMinutes \in
        {SLOT_SIZE_MINUTES * k : k \in
            {k \in 0..(MINUTES_PER_DAY \div SLOT_SIZE_MINUTES) :
                SLOT_SIZE_MINUTES * k + durationMinutes <= MINUTES_PER_DAY}} |->
        \A i \in DOMAIN getSlotRange(startMinutes, durationMinutes) :
            LoadAt(slotLoad, getSlotRange(startMinutes, durationMinutes)[i])
                < maxPerSlot]

\* the query parameters, lines 1199-1220; date is a UTC day (NoTime: none)
AvailStart(h, sequential, b, date, excludeAppointmentId, durationMinutes) ==
    /\ CanStart(h, sequential)
    /\ LET req == [IdleHandler EXCEPT !.op = "avail", !.business = b,
                      !.time = date, !.apptId = excludeAppointmentId,
                      !.total = durationMinutes]
       IN  handlers' = [handlers EXCEPT ![h] =
               IF durationMinutes <= 0 \/ date = NoTime
               THEN [req EXCEPT !.pc = "done", !.resp = 400]
               ELSE [req EXCEPT !.pc = "a_query"]]
    /\ ghost' = [ghost EXCEPT !.nreq = @ + 1, !.pure = FALSE]
    /\ UNCHANGED <<calls, jobs, storeVars, now, scanners>>

\* the scheduled appointments of the day, lines 1227-1244
AvailQuery(h) ==
    /\ handlers[h].pc = "a_query"
    /\ LET r == handlers[h]
       IN  handlers' = [handlers EXCEPT ![h] =
               [r EXCEPT !.rows = DayAppointments(r.business,
                                      MINUTES_PER_DAY * r.time, r.apptId),
                         !.pc = "a_settings"]]
    /\ UNCHANGED <<calls, jobs, storeVars, now, scanners, ghost>>

\* the settings, the load map and the answer, lines 1247-1284
AvailRespond(h) ==
    /\ handlers[h].pc = "a_settings"
    /\ LET r == handlers[h]
           maxPerSlot == MaxPerSlotOf(r.business)
           slotLoad == buildSlotLoadMap(r.rows)
       IN  handlers' = [handlers EXCEPT ![h] =
               [r EXCEPT !.pc = "done", !.resp = 200, !.rows = {},
                         !.json = AvailabilityOf(slotLoad, r.total,
                                                 maxPerSlot)]]
    /\ UNCHANGED <<calls, jobs, storeVars, now, scanners, ghost>>

AvailStep(h) == AvailQuery(h) \/ AvailRespond(h)

(* PATCH /businesses/settings/appointments, lines 1137-1196 --------------- *)

\* a settings payload; a field that is missing or of another type is Null
SettingsBody(r24, r2, grace, maxPerSlot) ==
    [reminder_24h |-> r24, reminder_2h |-> r2,
     no_show_grace_minutes |-> grace,
     max_appointments_per_slot |-> maxPerSlot]

\* the owner check and the typeof validation, lines 1141-1160
SettingsStart(h, sequential, b, role, body) ==
    /\ CanStart(h, sequential)
    /\ LET req == [IdleHandler EXCEPT !.op = "settings", !.business = b,
                      !.body = body]
           invalid == \E f \in DOMAIN body : body[f] = Null
       IN  handlers' = [handlers EXCEPT ![h] =
               IF role # "owner" THEN [req EXCEPT !.pc = "done", !.resp = 403]
               ELSE IF invalid THEN [req EXCEPT !.pc = "done", !.resp = 400]
               ELSE [req EXCEPT !.pc = "t_update"]]
    /\ ghost' = [ghost EXCEPT !.nreq = @ + 1, !.pure = FALSE]
    /\ UNCHANGED <<calls, jobs, storeVars, now, scanners>>

\* the update of businesses.appointment_settings, lines 1162-1174
SettingsUpdate(h) ==
    /\ handlers[h].pc = "t_update"
    /\ businesses' = [businesses EXCEPT
           ![handlers[h].business].appointment_settings = handlers[h].body]
    /\ handlers' = [handlers EXCEPT ![h].pc = "t_sync24"]
    /\ UNCHANGED <<calls, servicesTable, jobs, customers, appointments, nextApptId, apptServices,
                   messages, automation_rules, automation_logs, now,
                   scanners, ghost>>

\* update({ enabled }) of the business's rules of one rule_type
SyncRule(b, rule_type, enabled) ==
    [r \in DOMAIN automation_rules |->
        IF /\ automation_rules[r].business_id = b
           /\ automation_rules[r].rule_type = rule_type
        THEN [automation_rules[r] EXCEPT !.enabled = enabled]
        ELSE automation_rules[r]]

\* the 24h rule, lines 1181-1186
SettingsSync24(h) ==
    /\ handlers[h].pc = "t_sync24"
    /\ automation_rules' = SyncRule(handlers[h].business, "reminder_24h",
                                    handlers[h].body.reminder_24h[1])
    /\ handlers' = [handlers EXCEPT ![h].pc = "t_sync2"]
    /\ UNCHANGED <<calls, servicesTable, jobs, businesses, customers, appointments, nextApptId,
                   apptServices, messages, automation_logs, now, scanners,
                   ghost>>

\* the 2h rule and the answer, lines 1188-1195
SettingsSync2(h) ==
    /\ handlers[h].pc = "t_sync2"
    /\ automation_rules' = SyncRule(handlers[h].business, "reminder_2h",
                                    handlers[h].body.reminder_2h[1])
    /\ handlers' = [handlers EXCEPT ![h] = Respond(h, 200)]
    /\ UNCHANGED <<calls, servicesTable, jobs, businesses, customers, appointments, nextApptId,
                   apptServices, messages, automation_logs, now, scanners,
                   ghost>>

SettingsStep(h) == SettingsUpdate(h) \/ SettingsSync24(h) \/ SettingsSync2(h)

(* PATCH /automation-rules/:ruleId, lines 1496-1541 ----------------------- *)

\* the fields of a rule edit; Null is a field the body does not have
\* (undefined), Some(v) a field with value v (a template may be Some(Null),
\* the JSON null)
RuleBody(enabled, offset_minutes, message_template) ==
    [enabled |-> enabled, offset_minutes |-> offset_minutes,
     message_template |-> message_template]

\* lines 1499-1508
RuleEditStart(h, sequential, b, ruleId, body) ==
    /\ CanStart(h, sequential)
    /\ LET req == [IdleHandler EXCEPT !.op = "rule", !.business = b,
                      !.apptId = ruleId, !.body = body]
           empty == \A f \in DOMAIN body : body[f] = Null
       IN  handlers' = [handlers EXCEPT ![h] =
               IF empty THEN [req EXCEPT !.pc = "done", !.resp = 400]
               ELSE [req EXCEPT !.pc = "u_update"]]
    /\ ghost' = [ghost EXCEPT !.nreq = @ + 1, !.pure = FALSE]
    /\ UNCHANGED <<calls, jobs, storeVars, now, scanners>>

\* the update with .single(), lines 1510-1540: the store applies it to the
\* rule of the business, or answers an error (no such rule, or a select it
\* cannot serve) and changes nothing
RuleEditUpdate(h) ==
    /\ handlers[h].pc = "u_update"
    /\ LET r == handlers[h]
           found == /\ r.apptId \in DOMAIN automation_rules
                    /\ automation_rules[r.apptId].business_id = r.business
       IN  \/ /\ found
              /\ automation_rules' = [automation_rules EXCEPT ![r.apptId] =
                     [@ EXCEPT
                        !.enabled = Nullish(r.body.enabled, @),
                        !.offset_minutes = Nullish(r.body.offset_minutes, @),
                        !.message_template =
                            Nullish(r.body.message_template, @)]]
              /\ handlers' = [handlers EXCEPT ![h] = Respond(h, 200)]
           \/ /\ automation_rules' = automation_rules
              /\ handlers' = [handlers EXCEPT ![h] = Respond(h, 500)]
    /\ UNCHANGED <<calls, servicesTable, jobs, businesses, customers, appointments, nextApptId,
                   apptServices, messages, automation_logs, now, scanners,
                   ghost>>

(***************************************************************************)
(* The automation cron, lines 810-899                                      *)
(***************************************************************************)
\* a set of rows as the arrays a query without .order() can return: the
\* rows in any order
Orderings(rows) ==
    {q \in [1..Cardinality(rows) -> rows] :
        \A i, j \in 1..Cardinality(rows) : q[i] = q[j] => i = j}

IdleScanner ==
    [pc |-> "idle", bizQueue |-> <<>>, now |-> 0, ruleQueue |-> <<>>,
     apptQueue |-> <<>>, result |-> ""]

LogCount(apptId, ruleId) ==
    IF <<apptId, ruleId>> \in DOMAIN automation_logs
    THEN automation_logs[<<apptId, ruleId>>] ELSE 0

\* .eq('business_id', b).eq('enabled', true), lines 824-828
EnabledRules(b) ==
    {[id |-> r, offset_minutes |-> automation_rules[r].offset_minutes,
      message_template |-> automation_rules[r].message_template] :
        r \in {r \in DOMAIN automation_rules :
                  /\ automation_rules[r].business_id = b
                  /\ automation_rules[r].enabled}}

\* a window query without its lower bound: every earlier start matches
WindowAppointments_NoLowerBound(b, scanNow, offset_minutes) ==
    LET to == scanNow + offset_minutes
    IN  {[id |-> a.id, appointment_time |-> a.appointment_time] :
            a \in {a \in ApptRows :
                      /\ a.business_id = b
                      /\ a.status = "scheduled"
                      /\ a.appointment_time <= to}}

\* a window query that stops one minute short of now + offset
WindowAppointments_ShortWindow(b, scanNow, offset_minutes) ==
    LET from == scanNow + (offset_minutes - 1)
        to == scanNow + (offset_minutes - 1)
    IN  {[id |-> a.id, appointment_time |-> a.appointment_time] :
            a \in {a \in ApptRows :
                      /\ a.business_id = b
                      /\ a.status = "scheduled"
                      /\ a.appointment_time >= from
                      /\ a.appointment_time <= to}}

\* the window query of one rule, lines 837-851
WindowAppointments(b, scanNow, offset_minutes) ==
    LET from == scanNow + (offset_minutes - 1)
        to == scanNow + offset_minutes
    IN  {[id |-> a.id, appointment_time |-> a.appointment_time] :
            a \in {a \in ApptRows :
                      /\ a.business_id = b
                      /\ a.status = "scheduled"
                      /\ a.appointment_time >= from
                      /\ a.appointment_time <= to}}

\* a log check that never finds the row
AlreadySent_Never(apptId, ruleId) == FALSE

\* .maybeSingle() on the log rows of the pair: a row only when exactly one
\* matches (none: null; several: an error, and data is null)
AlreadySent(apptId, ruleId) == LogCount(apptId, ruleId) = 1

\* the loops: what the pass awaits next once an item is finished
NextBusiness(r) ==
    IF Len(r.bizQueue) <= 1 THEN IdleScanner
    ELSE [r EXCEPT !.bizQueue = Tail(@), !.ruleQueue = <<>>,
                   !.apptQueue = <<>>, !.pc = "rules", !.result = ""]

NextRule(r) ==
    IF Len(r.ruleQueue) <= 1 THEN NextBusiness(r)
    ELSE [r EXCEPT !.ruleQueue = Tail(@), !.apptQueue = <<>>,
                   !.pc = "query", !.result = ""]

NextAppointment(r) ==
    IF Len(r.apptQueue) <= 1 THEN NextRule(r)
    ELSE [r EXCEPT !.apptQueue = Tail(@), !.pc = "check", !.result = ""]

\* the cron fires: select the businesses, lines 815-819
ScanStart(s) ==
    /\ scanners[s].pc = "idle"
    /\ \E all \in Orderings(DOMAIN businesses) :
           /\ all # <<>>
           /\ scanners' = [scanners EXCEPT ![s] =
                  [IdleScanner EXCEPT !.bizQueue = all, !.pc = "rules"]]
    /\ ghost' = NoteRun([ghost EXCEPT !.ran = TRUE], "automation")
    /\ UNCHANGED <<calls, jobs, storeVars, now, handlers>>

\* the enabled rules of the business, then now, lines 824-833
ScanFetchRules(s) ==
    /\ scanners[s].pc = "rules"
    /\ \E rules \in Orderings(EnabledRules(Head(scanners[s].bizQueue))) :
           LET r == scanners[s]
           IN  scanners' = [scanners EXCEPT ![s] =
                   IF rules = <<>> THEN NextBusiness(r)
                   ELSE [r EXCEPT !.ruleQueue = rules, !.now = now,
                                  !.pc = "query"]]
    /\ UNCHANGED <<calls, jobs, storeVars, now, handlers, ghost>>

\* the appointments in the rule's window, lines 835-853
ScanQuery(s) ==
    /\ scanners[s].pc = "query"
    /\ \E appts \in Orderings(WindowAppointments(
                        Head(scanners[s].bizQueue), scanners[s].now,
                        Head(scanners[s].ruleQueue).offset_minutes)) :
           LET r == scanners[s]
           IN  scanners' = [scanners EXCEPT ![s] =
                   IF appts = <<>> THEN NextRule(r)
                   ELSE [r EXCEPT !.apptQueue = appts, !.pc = "check"]]
    /\ UNCHANGED <<calls, jobs, storeVars, now, handlers, ghost>>

\* has the rule fired for the appointment, lines 857-864; if not, the
\* message is built, lines 866-874: rule.message_template.replace throws
\* a TypeError on a null template, which the one catch of the pass
\* (line 896) takes, ending the pass
ScanCheckLog(s) ==
    /\ scanners[s].pc = "check"
    /\ LET r == scanners[s]
       IN  scanners' = [scanners EXCEPT ![s] =
               IF AlreadySent(Head(r.apptQueue).id, Head(r.ruleQueue).id)
               THEN NextAppointment(r)
               ELSE IF Head(r.ruleQueue).message_template = Null
               THEN IdleScanner
               ELSE [r EXCEPT !.pc = "send"]]
    /\ UNCHANGED <<calls, jobs, storeVars, now, handlers, ghost>>

\* a pass that writes the log row whatever the gateway answered
LogsAfter_Always(status) == TRUE

\* does the pass write the log row after this send result, line 881
LogsAfter(status) == status = "submitted"

\* history: one more submitted dispatch for the pair (0, 1, 2 = several)
CountSent(sent, k) ==
    [x \in DOMAIN sent \cup {k} |->
        IF x # k THEN sent[x]
        ELSE IF k \notin DOMAIN sent THEN 1
        ELSE IF sent[k] < 2 THEN sent[k] + 1 ELSE sent[k]]

SentCount(apptId, ruleId) ==
    IF <<apptId, ruleId>> \in DOMAIN ghost.sent
    THEN ghost.sent[<<apptId, ruleId>>] ELSE 0

\* the gateway send, lines 876-881
ScanSend(s, outcomes) ==
    /\ scanners[s].pc = "send"
    /\ \E outcome \in outcomes :
        LET r == scanners[s]
            k == <<Head(r.apptQueue).id, Head(r.ruleQueue).id>>
        IN  /\ scanners' = [scanners EXCEPT ![s] =
                   IF LogsAfter(outcome)
                   THEN [r EXCEPT !.pc = "log", !.result = outcome]
                   ELSE NextAppointment(r)]
            /\ ghost' = IF outcome = "submitted"
                        THEN [ghost EXCEPT
                                 !.sent = CountSent(@, k),
                                 !.everSubmitted = @ \cup {k}]
                        ELSE IF outcome = "failed"
                        THEN [ghost EXCEPT !.failed = @ \cup {k}]
                        ELSE ghost
    /\ UNCHANGED <<calls, jobs, storeVars, now, handlers>>

\* the log row, lines 882-887
ScanInsertLog(s) ==
    /\ scanners[s].pc = "log"
    /\ LET r == scanners[s]
           k == <<Head(r.apptQueue).id, Head(r.ruleQueue).id>>
       IN  /\ LogCount(k[1], k[2]) < MaxLogRows
           /\ automation_logs' =
                  [x \in DOMAIN automation_logs \cup {k} |->
                      IF x = k THEN LogCount(k[1], k[2]) + 1
                      ELSE automation_logs[x]]
           /\ scanners' = [scanners EXCEPT ![s] = NextAppointment(r)]
    /\ UNCHANGED <<calls, servicesTable, jobs, businesses, customers, appointments, nextApptId,
                   apptServices, messages, automation_rules, now, handlers,
                   ghost>>

ScanStep(s, outcomes) ==
    \/ ScanFetchRules(s)
    \/ ScanQuery(s)
    \/ ScanCheckLog(s)
    \/ ScanSend(s, outcomes)
    \/ ScanInsertLog(s)

\* a minute passes
Tick ==
    /\ now < MaxTime
    /\ now' = now + 1
    /\ ghost' = [ghost EXCEPT !.ran = FALSE]
    /\ UNCHANGED <<calls, jobs, storeVars, handlers, scanners>>

(***************************************************************************)
(* autoMarkNoShows, lines 997-1058, and the archival cron, lines 1063-1086 *)
(***************************************************************************)
\* business.appointment_settings?.no_show_grace_minutes ?? 30
GraceOf(settings) == Nullish(settings.no_show_grace_minutes, DEFAULT_NO_SHOW_GRACE)

\* an overdue test that also takes the instant the grace ends
NoShowOverdue_Inclusive(appointment_time, graceMinutes, scanNow) ==
    scanNow >= appointment_time + graceMinutes

\* now > noShowAt, lines 1027-1034
NoShowOverdue(appointment_time, graceMinutes, scanNow) ==
    scanNow > appointment_time + graceMinutes

\* the scheduled appointments of a business, lines 1021-1025
ScheduledOf(b) ==
    {[id |-> a.id, appointment_time |-> a.appointment_time] :
        a \in {a \in ApptRows : a.business_id = b /\ a.status = "scheduled"}}

NoShowNextBusiness(j) ==
    IF Len(j.bizQueue) <= 1 THEN IdleJobs.noshow
    ELSE [j EXCEPT !.bizQueue = Tail(@), !.overdueIds = {}, !.pc = "n_query"]

\* now and the businesses with their settings, lines 999-1009
NoShowStart(sequential) ==
    /\ jobs.noshow.pc = "idle"
    /\ sequential => Quiet
    /\ \E bizs \in Orderings(
              {[id |-> b,
                appointment_settings |-> businesses[b].appointment_settings] :
                  b \in DOMAIN businesses}) :
           jobs' = [jobs EXCEPT !.noshow =
               IF bizs = <<>> THEN IdleJobs.noshow
               ELSE [pc |-> "n_query", now |-> now, bizQueue |-> bizs,
                     overdueIds |-> {}]]
    /\ ghost' = NoteRun(ghost, "no_show")
    /\ UNCHANGED <<calls, storeVars, now, handlers, scanners>>

\* the scheduled appointments of the business and the overdue ones among
\* them, lines 1012-1038
NoShowQuery ==
    /\ jobs.noshow.pc = "n_query"
    /\ LET j == jobs.noshow
           business == Head(j.bizQueue)
           graceMinutes == GraceOf(business.appointment_settings)
           overdueIds == {a.id : a \in {a \in ScheduledOf(business.id) :
                             NoShowOverdue(a.appointment_time, graceMinutes,
                                           j.now)}}
       IN  jobs' = [jobs EXCEPT !.noshow =
               IF overdueIds = {} THEN NoShowNextBusiness(j)
               ELSE [j EXCEPT !.overdueIds = overdueIds, !.pc = "n_update"]]
    /\ UNCHANGED <<calls, storeVars, now, handlers, scanners, ghost>>

\* update({ status: 'no_show' }).in('id', overdueIds), lines 1041-1044
NoShowUpdate ==
    /\ jobs.noshow.pc = "n_update"
    /\ appointments' = [a \in DOMAIN appointments |->
           IF a \in jobs.noshow.overdueIds
           THEN [appointments[a] EXCEPT !.status = "no_show"]
           ELSE appointments[a]]
    /\ jobs' = [jobs EXCEPT !.noshow = NoShowNextBusiness(@)]
    /\ UNCHANGED <<calls, servicesTable, businesses, customers, nextApptId, apptServices, messages,
                   automation_rules, automation_logs, now, handlers, scanners,
                   ghost>>

NoShowStep == NoShowQuery \/ NoShowUpdate

\* an archival that also takes the appointments exactly at the cutoff
ArchiveCandidates_Inclusive(scanNow) ==
    LET cutoff == scanNow - RETENTION_DAYS * MINUTES_PER_DAY
    IN  {a \in DOMAIN appointments :
            /\ appointments[a].status \in {"cancelled", "no_show"}
            /\ appointments[a].appointment_time <= cutoff
            /\ appointments[a].archived_at = Null}

\* the rows the archival update matches, lines 1068-1078
ArchiveCandidates(scanNow) ==
    LET cutoff == scanNow - RETENTION_DAYS * MINUTES_PER_DAY
    IN  {a \in DOMAIN appointments :
            /\ appointments[a].status \in {"cancelled", "no_show"}
            /\ appointments[a].appointment_time < cutoff
            /\ appointments[a].archived_at = Null}

\* the archival cron: one update, lines 1063-1086
ArchiveRun(sequential) ==
    /\ sequential => Quiet
    /\ appointments' = [a \in DOMAIN appointments |->
           IF a \in ArchiveCandidates(now)
           THEN [appointments[a] EXCEPT !.archived_at = Some(now)]
           ELSE appointments[a]]
    /\ ghost' = NoteRun([ghost EXCEPT !.archiveRuns = 1 - @], "archival")
    /\ UNCHANGED <<calls, servicesTable, businesses, customers, nextApptId, apptServices, messages,
                   automation_rules, automation_logs, now, handlers, scanners,
                   jobs>>

\* the clock moves on to a later instant
Advance(instants) ==
    /\ \E t \in instants : t > now /\ now' = t
    /\ UNCHANGED <<calls, storeVars, handlers, scanners, jobs, ghost>>

(***************************************************************************)
(* retryFailedMessages, lines 1608-1643                                    *)
(***************************************************************************)
Min(a, b) == IF a <= b THEN a ELSE b

\* a selection that forgets the ceiling on retry_count
RetryMatches_NoCeiling == {i \in DOMAIN messages : messages[i].status = "failed"}

\* the rows the select matches, lines 1609-1613
RetryMatches ==
    {i \in DOMAIN messages :
        messages[i].status = "failed" /\ messages[i].retry_count < RETRY_CEILING}

\* getCustomerPhone(msg.customer_id), line 1623: the program declares and
\* imports no getCustomerPhone, so evaluating the call throws a
\* ReferenceError, which the catch of line 1632 takes
getCustomerPhone(customer_id) == "ReferenceError"

\* rows by ascending id
RowsAscending(rows) ==
    [k \in 1..Cardinality(rows) |->
        CHOOSE x \in rows : Cardinality({y \in rows : y.id < x.id}) = k - 1]

\* the array of a select without .order(), as the for loop goes through it:
\* the row the loop takes next is any of the rows left (the rows behind it
\* are held in id order until the loop reaches them, when again any of them
\* is next), so the loop visits the rows in every order
LoopOrders(rows) ==
    IF rows = {} THEN {<<>>}
    ELSE {<<first>> \o RowsAscending(rows \ {first}) : first \in rows}

\* the loop of line 1616 goes on to its next message, or ends
RetryNextMessage(j, queue) ==
    IF queue = <<>> THEN IdleJobs.retry
    ELSE [j EXCEPT !.queue = queue, !.pc = "m_mark"]

\* the select with .limit(10), lines 1609-1614: without an order, any 10 of
\* the matching rows
RetrySelect(sequential, history) ==
    /\ jobs.retry.pc = "idle"
    /\ sequential => Quiet
    /\ \E batch \in SUBSET RetryMatches :
        /\ Cardinality(batch) = Min(RETRY_BATCH, Cardinality(RetryMatches))
        /\ \E queue \in LoopOrders(
                   {[id |-> i, customer_id |-> messages[i].customer_id,
                     retry_count |-> messages[i].retry_count] : i \in batch}) :
               jobs' = [jobs EXCEPT !.retry =
                   RetryNextMessage(IdleJobs.retry, queue)]
    /\ ghost' = history
    /\ UNCHANGED <<calls, storeVars, now, handlers, scanners>>

\* a pass of a run that looks at a bounded number of passes
RetryStart(sequential) ==
    /\ ghost.retryRuns < MaxRetryPasses
    /\ RetrySelect(sequential, [ghost EXCEPT !.retryRuns = @ + 1])

\* a catch that counts the retry and leaves the status as it was
RetryFail_LeavesRetrying ==
    /\ jobs.retry.pc = "m_catch"
    /\ LET msg == Head(jobs.retry.queue)
       IN  messages' = [messages EXCEPT ![msg.id] =
               [@ EXCEPT !.retry_count = msg.retry_count + 1,
                         !.error = Some("getCustomerPhone is not defined")]]
    /\ \E queue \in LoopOrders(Range(Tail(jobs.retry.queue))) :
           jobs' = [jobs EXCEPT !.retry = RetryNextMessage(@, queue)]
    /\ UNCHANGED <<calls, servicesTable, businesses, customers, appointments, nextApptId,
                   apptServices, automation_rules, automation_logs, now,
                   handlers, scanners, ghost>>

\* update({ status: 'retrying' }), lines 1618-1621, and the lookup of the
\* customer, line 1623
RetryMarkRetrying ==
    /\ jobs.retry.pc = "m_mark"
    /\ LET msg == Head(jobs.retry.queue)
       IN  /\ messages' = [messages EXCEPT ![msg.id].status = "retrying"]
           /\ jobs' = [jobs EXCEPT !.retry.pc =
                  IF getCustomerPhone(msg.customer_id) = "ReferenceError"
                  THEN "m_catch" ELSE "m_send"]
    /\ UNCHANGED <<calls, servicesTable, businesses, customers, appointments, nextApptId,
                   apptServices, automation_rules, automation_logs, now,
                   handlers, scanners, ghost>>

\* sendWhatsAppMessage(customer.phone, msg.content), line 1624: it returns
\* its status and never throws; the result is not looked at
RetrySend ==
    /\ jobs.retry.pc = "m_send"
    /\ \E outcome \in GatewayOutcomes :
           jobs' = [jobs EXCEPT !.retry.pc = "m_sent"]
    /\ ghost' = [ghost EXCEPT !.resent = @ \cup {Head(jobs.retry.queue).id}]
    /\ UNCHANGED <<calls, storeVars, now, handlers, scanners>>

\* update({ status: 'sent' }), lines 1626-1629
RetryMarkSent ==
    /\ jobs.retry.pc = "m_sent"
    /\ messages' = [messages EXCEPT
           ![Head(jobs.retry.queue).id].status = "sent"]
    /\ \E queue \in LoopOrders(Range(Tail(jobs.retry.queue))) :
           jobs' = [jobs EXCEPT !.retry = RetryNextMessage(@, queue)]
    /\ UNCHANGED <<calls, servicesTable, businesses, customers, appointments, nextApptId,
                   apptServices, automation_rules, automation_logs, now,
                   handlers, scanners, ghost>>

\* the catch, lines 1631-1640
RetryFail ==
    /\ jobs.retry.pc = "m_catch"
    /\ LET msg == Head(jobs.retry.queue)
       IN  messages' = [messages EXCEPT ![msg.id] =
               [@ EXCEPT !.status = "failed",
                         !.retry_count = msg.retry_count + 1,
                         !.error = Some("getCustomerPhone is not defined")]]
    /\ \E queue \in LoopOrders(Range(Tail(jobs.retry.queue))) :
           jobs' = [jobs EXCEPT !.retry = RetryNextMessage(@, queue)]
    /\ UNCHANGED <<calls, servicesTable, businesses, customers, appointments, nextApptId,
                   apptServices, automation_rules, automation_logs, now,
                   handlers, scanners, ghost>>

(***************************************************************************)
(* Initial states                                                          *)
(***************************************************************************)
\* the two reminder rules of a business; offsets are the rule's column
\* offset_minutes (minutes before the start)
Rules(offset1, offset2, enabled2) ==
    (1 :> [id |-> 1, business_id |-> 1, rule_type |-> "reminder_24h",
           offset_minutes |-> offset1, enabled |-> TRUE,
           message_template |-> Some("24h")])
    @@
    (2 :> [id |-> 2, business_id |-> 1, rule_type |-> "reminder_2h",
           offset_minutes |-> offset2, enabled |-> enabled2,
           message_template |-> Some("2h")])

InitGhost ==
    [nreq |-> 0, maxreq |-> MaxRequests, n200 |-> 0, n409 |-> 0, pure |-> TRUE, slot |-> Null,
     moved |-> {}, touched |-> {}, sent |-> <<>>, everSubmitted |-> {},
     failed |-> {}, cleared |-> {}, ran |-> FALSE, bookedAt |-> <<>>,
     archiveRuns |-> 0, retryRuns |-> 0, resent |-> {},
     trackSends |-> FALSE, confirmFailed |-> {},
     trackRuns |-> FALSE, lastRun |-> "", runCount |-> 0]

\* an empty store of one business
InitStore(maxPerSlotChoices, history) ==
    /\ businesses \in
           {[b \in Businesses |->
                [timezone |-> "UTC", appointment_settings |-> Settings(m)]] :
            m \in maxPerSlotChoices}
    /\ customers = <<>>
    /\ appointments = <<>>
    /\ nextApptId = 1
    /\ apptServices = {}
    /\ messages = <<>>
    /\ automation_rules = Rules(2, 1, FALSE)
    /\ automation_logs = <<>>
    /\ now = 0
    /\ handlers = [h \in Handlers |-> IdleHandler]
    /\ scanners = [s \in Scanners |-> IdleScanner]
    /\ jobs = IdleJobs
    /\ servicesTable = Catalogue
    /\ calls = NoCall
    /\ ghost = history

InitEmpty(maxPerSlotChoices) == InitStore(maxPerSlotChoices, InitGhost)

(***************************************************************************)
(* Requests of the booking specifications                                  *)
(***************************************************************************)
Service(id, minutes) == [service_id |-> id, duration_minutes |-> minutes]
\* 13:00 and 13:15 UTC of day 0
BookTimes == {780, 795}
BookServiceLists == {<<Service(1, 15)>>, <<Service(1, 15), Service(2, 15)>>}
BookPhones == {1, 2}
BookNames == {"Ann"}
\* the ids a request can name: the rows there are and one there is not
ApptIds == 1..nextApptId

(* Requests one after another: no request starts while another runs.      *)
InitSeq == InitEmpty({Null, Some(2)})

NextSeq ==
    \/ \E phone \in BookPhones, name \in BookNames,
          services \in BookServiceLists, time \in BookTimes :
           BookStart(1, TRUE, 1, phone, name, services, time)
    \/ BookFindCustomer(1)
    \/ BookCreateCustomer(1)
    \/ BookReadSettings(1)
    \/ BookCheckCapacity(1)
    \/ BookInsertAppointment(1)
    \/ BookInsertServices(1)
    \/ BookRollback(1)
    \/ BookLogMessage(1)
    \/ BookSend(1)
    \/ \E a \in ApptIds, time \in BookTimes :
           ReschedStart(1, TRUE, 1, a, time)
    \/ ReschedStep(1)
    \/ \E a \in ApptIds, status \in {"cancelled"} :
           StatusStart(1, TRUE, 1, a, status)
    \/ StatusStep(1)

SpecSeq == InitSeq /\ [][NextSeq]_vars

(* Requests in parallel: two handlers, any interleaving of their awaits.  *)
InitBooking == InitEmpty({Null})

NextBooking ==
    \E h \in Handlers :
        \/ \E services \in BookServiceLists, time \in BookTimes :
               BookStart(h, FALSE, 1, 1, "Ann", services, time)
        \/ BookFindCustomer(h)
        \/ BookCreateCustomer(h)
        \/ BookReadSettings(h)
        \/ BookCheckCapacity(h)
        \/ BookInsertAppointment(h)
        \/ BookInsertServices(h)
        \/ BookRollback(h)
        \/ BookLogMessage(h)
        \/ BookSend(h)
        \/ \E a \in ApptIds, time \in BookTimes :
               ReschedStart(h, FALSE, 1, a, time)
        \/ ReschedStep(h)

SpecBooking == InitBooking /\ [][NextBooking]_vars

(***************************************************************************)
(* The reminder specifications.  The clock runs in minutes from 0; the     *)
(* two rules fire 2 and 1 minutes before the start.                        *)
(***************************************************************************)
AutoTimes == {2, 3}

\* a store with one booked appointment, as an accepted booking at minute 0
\* leaves it
InitReminders(rules) ==
    /\ businesses = [b \in Businesses |->
           [timezone |-> "UTC", appointment_settings |-> Settings(Some(2))]]
    /\ customers = <<[business_id |-> 1, phone |-> 1, name |-> "Ann"]>>
    /\ \E t \in AutoTimes :
           appointments = [i \in {1} |->
               [id |-> i, business_id |-> 1, customer_id |-> 1,
                appointment_time |-> t, slot_minutes |-> UTCMinutes(t),
                duration_minutes |-> 15, status |-> "scheduled",
                archived_at |-> Null]]
    /\ nextApptId = 2
    /\ apptServices = {[appointment_id |-> 1, line |-> 1, service_id |-> 1,
                        duration_minutes |-> 15]}
    /\ messages = <<[customer_id |-> 1, direction |-> "out", status |-> "sent",
                     message_type |-> "system", retry_count |-> 0,
                     error |-> Null]>>
    /\ automation_rules = rules
    /\ automation_logs = <<>>
    /\ now = 0
    /\ handlers = [h \in Handlers |-> IdleHandler]
    /\ scanners = [s \in Scanners |-> IdleScanner]
    /\ jobs = IdleJobs
    /\ servicesTable = Catalogue
    /\ calls = NoCall
    /\ ghost = [InitGhost EXCEPT !.bookedAt = [i \in {1} |-> 0],
                                 !.maxreq = MaxAutoRequests]

InitAuto(enabled2) == InitReminders(Rules(2, 1, enabled2))

(* Cron passes that may overlap (a pass that outlasts its minute, or two  *)
(* server processes), and requests that interleave with them.             *)
NextOverlap ==
    \/ Tick
    \/ \E s \in Scanners : ScanStart(s)
    \/ \E s \in Scanners : ScanStep(s, GatewayOutcomes)
    \/ \E a \in DOMAIN appointments, time \in AutoTimes :
           ReschedStart(1, FALSE, 1, a, time)
    \/ ReschedStep(1)
    \/ \E a \in DOMAIN appointments : StatusStart(1, FALSE, 1, a, "cancelled")
    \/ StatusStep(1)

\* the 2h reminder is off, as by default
InitAutoOneRule == InitAuto(FALSE)
SpecOverlap == InitAutoOneRule /\ [][NextOverlap]_vars

(* One cron pass at a time; requests interleave with its awaits.          *)
NextAuto ==
    \/ Tick
    \/ ScanStart(1)
    \/ ScanStep(1, GatewayOutcomes)
    \/ \E a \in DOMAIN appointments, time \in AutoTimes :
           ReschedStart(1, FALSE, 1, a, time)
    \/ ReschedStep(1)
    \/ \E a \in DOMAIN appointments : StatusStart(1, FALSE, 1, a, "cancelled")
    \/ StatusStep(1)

InitAutoTwoRules == InitAuto(TRUE)
SpecAuto == InitAutoTwoRules /\ [][NextAuto]_vars

(* One cron pass at a time, and requests only between passes.             *)
NextSeqAuto ==
    \/ Tick
    \/ Quiet /\ ScanStart(1)
    \/ ScanStep(1, GatewayOutcomes)
    \/ \E a \in DOMAIN appointments, time \in AutoTimes :
           ReschedStart(1, TRUE, 1, a, time)
    \/ ReschedStep(1)
    \/ \E a \in DOMAIN appointments : StatusStart(1, TRUE, 1, a, "cancelled")
    \/ StatusStep(1)

SpecSeqAuto == InitAutoTwoRules /\ [][NextSeqAuto]_vars

(* The cron as scheduled: one pass every minute, finished within its    *)
(* minute, and a gateway that accepts every send.  Requests interleave.   *)
CadenceTick == ghost.ran /\ ScannerIdle(1) /\ Tick
CadenceScanStart == ~ghost.ran /\ ScanStart(1)

NextCadence ==
    \/ CadenceTick
    \/ CadenceScanStart
    \/ ScanStep(1, {"submitted"})
    \/ \E time \in AutoTimes :
           BookStart(1, FALSE, 1, 1, "Ann", <<Service(1, 15)>>, time + 1)
    \/ BookFindCustomer(1)
    \/ BookReadSettings(1)
    \/ BookCheckCapacity(1)
    \/ BookInsertAppointment(1)
    \/ BookInsertServices(1)
    \/ BookRollback(1)
    \/ BookLogMessage(1)
    \/ BookSend(1)
    \/ \E a \in DOMAIN appointments, time \in AutoTimes :
           ReschedStart(1, FALSE, 1, a, time)
    \/ ReschedStep(1)
    \/ \E a \in DOMAIN appointments : StatusStart(1, FALSE, 1, a, "cancelled")
    \/ StatusStep(1)

SpecCadence == InitAutoTwoRules /\ [][NextCadence]_vars

(***************************************************************************)
(* The life of an appointment: status requests, reschedules, the no-show  *)
(* scan and the archival, one operation at a time.                        *)
(***************************************************************************)
LifeTimes == {0, 1}
LifeGraces == {Null, Some(10)}
\* the instants around the end of a grace and around the retention cutoff
LifeInstants ==
    UNION {{t + d - 1, t + d, t + d + 1} :
              t \in LifeTimes,
              d \in {GraceOf([no_show_grace_minutes |-> g]) : g \in LifeGraces}
                    \cup {RETENTION_DAYS * MINUTES_PER_DAY}}
LifeStatuses == allowedStatuses \cup {"scheduled"}

\* two booked appointments, at minutes 0 and 1
InitLife ==
    /\ \E g \in LifeGraces :
           businesses = [b \in Businesses |->
               [timezone |-> "UTC",
                appointment_settings |->
                    [Settings(Some(2)) EXCEPT !.no_show_grace_minutes = g]]]
    /\ customers = <<[business_id |-> 1, phone |-> 1, name |-> "Ann"]>>
    /\ appointments = [i \in {1, 2} |->
           [id |-> i, business_id |-> 1, customer_id |-> 1,
            appointment_time |-> i - 1, slot_minutes |-> UTCMinutes(i - 1),
            duration_minutes |-> 15, status |-> "scheduled",
            archived_at |-> Null]]
    /\ nextApptId = 3
    /\ apptServices = {[appointment_id |-> i, line |-> 1, service_id |-> 1,
                        duration_minutes |-> 15] : i \in {1, 2}}
    /\ messages = <<>>
    /\ automation_rules = Rules(2, 1, FALSE)
    /\ automation_logs = <<>>
    /\ now = 0
    /\ handlers = [h \in Handlers |-> IdleHandler]
    /\ scanners = [s \in Scanners |-> IdleScanner]
    /\ jobs = IdleJobs
    /\ servicesTable = Catalogue
    /\ calls = NoCall
    /\ ghost = [InitGhost EXCEPT !.bookedAt = [i \in {1, 2} |-> 0],
                                 !.maxreq = MaxAutoRequests]

NextLife ==
    \/ Quiet /\ Advance(LifeInstants)
    \/ NoShowStart(TRUE)
    \/ NoShowStep
    \/ ArchiveRun(TRUE)
    \/ \E a \in DOMAIN appointments, status \in LifeStatuses :
           StatusStart(1, TRUE, 1, a, status)
    \/ StatusStep(1)
    \/ \E a \in DOMAIN appointments, time \in LifeTimes :
           ReschedStart(1, TRUE, 1, a, time)
    \/ ReschedStep(1)

SpecLife == InitLife /\ [][NextLife]_vars

(***************************************************************************)
(* Bookings with every shape of services list, one at a time.             *)
(***************************************************************************)
PayloadServiceLists ==
    {<<>>, <<Service(1, 15)>>, <<Service(1, 0)>>, <<Service(1, -15)>>,
     <<Service(1, 15), Service(2, 0)>>, <<Service(1, 30), Service(2, -15)>>}

InitPayload == InitEmpty({Some(2)})

NextPayload ==
    \/ \E services \in PayloadServiceLists, time \in BookTimes :
           BookStart(1, TRUE, 1, 1, "Ann", services, time)
    \/ BookFindCustomer(1)
    \/ BookCreateCustomer(1)
    \/ BookReadSettings(1)
    \/ BookCheckCapacity(1)
    \/ BookInsertAppointment(1)
    \/ BookInsertServices(1)
    \/ BookRollback(1)
    \/ BookLogMessage(1)
    \/ BookSend(1)

SpecPayload == InitPayload /\ [][NextPayload]_vars

(***************************************************************************)
(* The retry scan over a store that holds failed outbound messages, one   *)
(* pass after the other.  The send and the 'sent' update of a retry are   *)
(* behind the call of getCustomerPhone and are never reached.             *)
(***************************************************************************)
\* more failed messages below the ceiling than one pass takes (1..11), one
\* failed message at the ceiling (12) and one sent (13)
RetryMessageIds == 1..(RETRY_BATCH + 3)
\* the retry_count of the first message
RetryPatterns == {0, 1}

\* retry counts at the start: the first message has most of its retries
\* left, the second two, the others one
RetryCountAt(i, k) ==
    IF i = 1 THEN k
    ELSE IF i = 2 THEN 1
    ELSE IF i <= RETRY_BATCH + 1 THEN RETRY_CEILING - 1
    ELSE IF i = RETRY_BATCH + 2 THEN RETRY_CEILING
    ELSE 0

InitRetry ==
    /\ businesses = [b \in Businesses |->
           [timezone |-> "UTC", appointment_settings |-> Settings(Null)]]
    /\ customers = <<[business_id |-> 1, phone |-> 1, name |-> "Ann"]>>
    /\ appointments = <<>>
    /\ nextApptId = 1
    /\ apptServices = {}
    /\ \E k \in RetryPatterns :
           messages = [i \in RetryMessageIds |->
               [customer_id |-> 1, direction |-> "out",
                status |-> IF i = RETRY_BATCH + 3 THEN "sent" ELSE "failed",
                message_type |-> "text",
                retry_count |-> RetryCountAt(i, k),
                error |-> Null]]
    /\ automation_rules = Rules(2, 1, FALSE)
    /\ automation_logs = <<>>
    /\ now = 0
    /\ handlers = [h \in Handlers |-> IdleHandler]
    /\ scanners = [s \in Scanners |-> IdleScanner]
    /\ jobs = IdleJobs
    /\ servicesTable = Catalogue
    /\ calls = NoCall
    /\ ghost = InitGhost

NextRetry ==
    \/ RetryStart(TRUE)
    \/ RetryMarkRetrying
    \/ RetryFail

SpecRetry == InitRetry /\ [][NextRetry]_vars

(***************************************************************************)
(* Bookings and reschedules, one at a time, with the answer of the        *)
(* gateway to each confirmation kept in the history.                      *)
(***************************************************************************)
InitConfirm == InitStore({Some(2)}, [InitGhost EXCEPT !.trackSends = TRUE])

NextConfirm ==
    \/ \E time \in BookTimes :
           BookStart(1, TRUE, 1, 1, "Ann", <<Service(1, 15)>>, time)
    \/ BookFindCustomer(1)
    \/ BookCreateCustomer(1)
    \/ BookReadSettings(1)
    \/ BookCheckCapacity(1)
    \/ BookInsertAppointment(1)
    \/ BookInsertServices(1)
    \/ BookRollback(1)
    \/ BookLogMessage(1)
    \/ BookSend(1)
    \/ \E a \in ApptIds, time \in BookTimes : ReschedStart(1, TRUE, 1, a, time)
    \/ ReschedStep(1)
    \/ \E customer_id \in 0..2, hasText \in BOOLEAN :
           MessageSendStart(1, TRUE, 1, customer_id, hasText)
    \/ MessageSendStep(1)

SpecConfirm == InitConfirm /\ [][NextConfirm]_vars

(***************************************************************************)
(* Settings updates and rule edits, in flight together.                   *)
(***************************************************************************)
SettingsBodies ==
    {SettingsBody(Some(r24), Some(r2), Some(30), Some(2)) :
        r24 \in BOOLEAN, r2 \in BOOLEAN}
    \cup {SettingsBody(Some(TRUE), Null, Some(30), Some(2))}
RuleBodies ==
    {RuleBody(Some(e), Null, Null) : e \in BOOLEAN}
    \cup {RuleBody(Null, Null, Null)}

\* the toggles of the settings agree with the rules
InitSettings ==
    /\ businesses = [b \in Businesses |->
           [timezone |-> "UTC",
            appointment_settings |->
                SettingsBody(Some(TRUE), Some(FALSE), Some(30), Some(2))]]
    /\ customers = <<>>
    /\ appointments = <<>>
    /\ nextApptId = 1
    /\ apptServices = {}
    /\ messages = <<>>
    /\ automation_rules = Rules(2, 1, FALSE)
    /\ automation_logs = <<>>
    /\ now = 0
    /\ handlers = [h \in Handlers |-> IdleHandler]
    /\ scanners = [s \in Scanners |-> IdleScanner]
    /\ jobs = IdleJobs
    /\ servicesTable = Catalogue
    /\ calls = NoCall
    /\ ghost = InitGhost

NextSettings ==
    \E h \in Handlers :
        \/ \E role \in {"owner", "staff"}, body \in SettingsBodies :
               SettingsStart(h, FALSE, 1, role, body)
        \/ SettingsStep(h)
        \/ \E ruleId \in 1..3, body \in RuleBodies :
               RuleEditStart(h, FALSE, 1, ruleId, body)
        \/ RuleEditUpdate(h)

SpecSettings == InitSettings /\ [][NextSettings]_vars

(***************************************************************************)
(* Passes over rules whose template may be null: automation_rules rows    *)
(* are created outside the server, and a rule edit stores the JSON null   *)
(* it is given.  One pass at a time, edits between passes.                *)
(***************************************************************************)
IsolationTemplates == {Null, Some("24h")}
IsolationBodies ==
    {RuleBody(Null, Null, Some(t)) : t \in IsolationTemplates}

InitIsolation ==
    \E t \in IsolationTemplates :
        InitReminders([Rules(2, 1, TRUE) EXCEPT ![1].message_template = t])

NextIsolation ==
    \/ Tick
    \/ Quiet /\ ScanStart(1)
    \/ ScanStep(1, GatewayOutcomes)
    \/ \E ruleId \in DOMAIN automation_rules, body \in IsolationBodies :
           RuleEditStart(1, TRUE, 1, ruleId, body)
    \/ RuleEditUpdate(1)

SpecIsolation == InitIsolation /\ [][NextIsolation]_vars

(***************************************************************************)
(* The slot arithmetic on its own: getSlotRange and the loop of the        *)
(* capacity check, for every start minute of a day.                        *)
(***************************************************************************)
StartMinutes == 0..(MINUTES_PER_DAY - 1)
Durations == 1..MaxDuration

\* an empty store; only a helper function is evaluated
EmptyStore ==
    /\ businesses = [b \in Businesses |->
           [timezone |-> "UTC", appointment_settings |-> Settings(Null)]]
    /\ customers = <<>>
    /\ appointments = <<>>
    /\ nextApptId = 1
    /\ apptServices = {}
    /\ messages = <<>>
    /\ automation_rules = <<>>
    /\ automation_logs = <<>>
    /\ now = 0
    /\ handlers = [h \in Handlers |-> IdleHandler]
    /\ scanners = [s \in Scanners |-> IdleScanner]
    /\ jobs = IdleJobs
    /\ servicesTable = Catalogue
    /\ ghost = InitGhost

SlotCalls ==
    [fn : {"getSlotRange", "requiredSlots"}, startMinutes : StartMinutes,
     durationMinutes : Durations, result : {Null}]

InitSlots == EmptyStore /\ calls \in SlotCalls

GetSlotRangeCall ==
    /\ calls.fn = "getSlotRange"
    /\ calls.result = Null
    /\ calls' = [calls EXCEPT !.result =
           Some(getSlotRange(calls.startMinutes, calls.durationMinutes))]
    /\ UNCHANGED <<storeVars, now, handlers, scanners, jobs, ghost>>

RequiredSlotsCall ==
    /\ calls.fn = "requiredSlots"
    /\ calls.result = Null
    /\ calls' = [calls EXCEPT !.result =
           Some(RequiredSlots(calls.startMinutes, calls.durationMinutes))]
    /\ UNCHANGED <<storeVars, now, handlers, scanners, jobs, ghost>>

NextSlots == GetSlotRangeCall \/ RequiredSlotsCall

SpecSlots == InitSlots /\ [][NextSlots]_vars

(***************************************************************************)
(* buildSlotLoadMap on its own: appointments of one duration that start    *)
(* on slot boundaries of one day and do not overlap.                       *)
(***************************************************************************)
\* the first boundaries of the day and the last one
GridStarts ==
    {SLOT_SIZE_MINUTES * k : k \in 0..(MaxGridStarts - 1)}
    \cup {MINUTES_PER_DAY - SLOT_SIZE_MINUTES}

\* rows as the day query selects them, on the second day of the epoch
LoadRows(starts, d) ==
    {[id |-> (s \div SLOT_SIZE_MINUTES) + 1,
      appointment_time |-> MINUTES_PER_DAY + s,
      duration_minutes |-> d] : s \in starts}

NonOverlapping(starts, d) ==
    \A s1, s2 \in starts : s1 < s2 => s1 + d <= s2

LoadCalls ==
    {[fn |-> "buildSlotLoadMap", appointments |-> LoadRows(starts, d),
      result |-> Null] :
        <<starts, d>> \in {x \in (SUBSET GridStarts) \X Durations :
                              NonOverlapping(x[1], x[2])}}

InitLoad == EmptyStore /\ calls \in LoadCalls

BuildSlotLoadMapCall ==
    /\ calls.fn = "buildSlotLoadMap"
    /\ calls.result = Null
    /\ calls' = [calls EXCEPT !.result =
           Some(buildSlotLoadMap(calls.appointments))]
    /\ UNCHANGED <<storeVars, now, handlers, scanners, jobs, ghost>>

NextLoad == BuildSlotLoadMapCall

SpecLoad == InitLoad /\ [][NextLoad]_vars

(***************************************************************************)
(* Availability queries between bookings, one request at a time.           *)
(***************************************************************************)
\* 00:00, 00:15 and 23:30 UTC of day 0
AvailBookTimes == {0, 15, 1410}
AvailDurations ==
    {0, 15, 20, 30, MINUTES_PER_DAY, MINUTES_PER_DAY + SLOT_SIZE_MINUTES}
AvailDates == {NoTime, 0, 1}

InitAvail == InitEmpty({Null, Some(2)})

NextAvail ==
    \/ \E services \in BookServiceLists, time \in AvailBookTimes :
           BookStart(1, TRUE, 1, 1, "Ann", services, time)
    \/ BookFindCustomer(1)
    \/ BookCreateCustomer(1)
    \/ BookReadSettings(1)
    \/ BookCheckCapacity(1)
    \/ BookInsertAppointment(1)
    \/ BookInsertServices(1)
    \/ BookRollback(1)
    \/ BookLogMessage(1)
    \/ BookSend(1)
    \/ \E date \in AvailDates, exclude \in 0..1, d \in AvailDurations :
           AvailStart(1, TRUE, 1, date, exclude, d)
    \/ AvailStep(1)

SpecAvail == InitAvail /\ [][NextAvail]_vars

(***************************************************************************)
(* Bookings and inbound messages of one phone, in flight together.        *)
(***************************************************************************)
CustomerNames == {"", "Ann", "Bob"}
WebhookEvents == {"message", "message-event"}

InitCustomers == InitEmpty({Some(2)})

NextCustomers ==
    \E h \in Handlers :
        \/ \E name \in CustomerNames :
               BookStart(h, FALSE, 1, 1, name, <<Service(1, 15)>>, 780)
        \/ BookFindCustomer(h)
        \/ BookCreateCustomer(h)
        \/ BookBackfillName(h)
        \/ BookReadSettings(h)
        \/ BookCheckCapacity(h)
        \/ BookInsertAppointment(h)
        \/ BookInsertServices(h)
        \/ BookRollback(h)
        \/ BookLogMessage(h)
        \/ BookSend(h)
        \/ \E eventType \in WebhookEvents, phone \in 0..1,
              hasText \in BOOLEAN :
               WebhookStart(h, FALSE, eventType, phone, hasText)
        \/ \E hasName \in BOOLEAN, hasNumber \in BOOLEAN :
               BusinessCreate(h, FALSE, hasName, hasNumber)
        \/ WebhookStep(h)

SpecCustomers == InitCustomers /\ [][NextCustomers]_vars

(***************************************************************************)
(* Bookings, reschedules and service edits, one request at a time.         *)
(***************************************************************************)
ServiceDurations == {0, 30, 45}
ServiceFlags == {Null, Some(FALSE)}
ServiceNames == {"", "Renamed"}
ServiceRoles == {"owner", "staff"}

InitServices == InitEmpty({Some(2)})

NextServices ==
    \/ \E services \in PayloadServiceLists \cup BookServiceLists,
          time \in BookTimes :
           BookStart(1, TRUE, 1, 1, "Ann", services, time)
    \/ BookFindCustomer(1)
    \/ BookCreateCustomer(1)
    \/ BookReadSettings(1)
    \/ BookCheckCapacity(1)
    \/ BookInsertAppointment(1)
    \/ BookInsertServices(1)
    \/ BookRollback(1)
    \/ BookLogMessage(1)
    \/ BookSend(1)
    \/ \E a \in ApptIds, time \in BookTimes :
           ReschedStart(1, TRUE, 1, a, time)
    \/ ReschedStep(1)
    \/ \E id \in 1..3, name \in ServiceNames, d \in ServiceDurations,
          is_active \in ServiceFlags :
           ServiceEditStart(1, TRUE, 1, id, name, d, is_active)
    \/ ServiceEditUpdate(1)
    \/ \E role \in ServiceRoles, name \in ServiceNames,
          d \in ServiceDurations :
           ServiceCreateStart(1, TRUE, 1, role, name, d)
    \/ ServiceCreateInsert(1)

SpecServices == InitServices /\ [][NextServices]_vars

(***************************************************************************)
(* The three scans on a clock that stands still, one run at a time and     *)
(* nothing else: at the instant RerunNow appointment 1 is in the window of *)
(* both reminder rules, appointment 2 is past its grace, appointment 3 is  *)
(* older than the retention.                                               *)
(***************************************************************************)
RerunNow == RETENTION_DAYS * MINUTES_PER_DAY + 100
RerunStatuses == {"cancelled", "no_show", "completed"}

RerunAppointment(id, time, status) ==
    [id |-> id, business_id |-> 1, customer_id |-> 1,
     appointment_time |-> time, slot_minutes |-> UTCMinutes(time),
     duration_minutes |-> 15, status |-> status, archived_at |-> Null]

InitRerun ==
    /\ \E g \in LifeGraces :
           businesses = [b \in Businesses |->
               [timezone |-> "UTC",
                appointment_settings |->
                    [Settings(Some(2)) EXCEPT !.no_show_grace_minutes = g]]]
    /\ customers = <<[business_id |-> 1, phone |-> 1, name |-> "Ann"]>>
    /\ servicesTable = Catalogue
    /\ \E status \in RerunStatuses :
           appointments =
               (1 :> RerunAppointment(1, RerunNow + 1, "scheduled"))
               @@ (2 :> RerunAppointment(2, RerunNow - 31, "scheduled"))
               @@ (3 :> RerunAppointment(3, 99, status))
    /\ nextApptId = 4
    /\ apptServices = {[appointment_id |-> i, line |-> 1, service_id |-> 1,
                        duration_minutes |-> 15] : i \in 1..3}
    /\ messages = <<>>
    /\ \E enabled2 \in BOOLEAN : automation_rules = Rules(2, 1, enabled2)
    /\ automation_logs = <<>>
    /\ now = RerunNow
    /\ handlers = [h \in Handlers |-> IdleHandler]
    /\ scanners = [s \in Scanners |-> IdleScanner]
    /\ jobs = IdleJobs
    /\ calls = NoCall
    /\ ghost = [InitGhost EXCEPT !.bookedAt = [i \in 1..3 |-> 0],
                                 !.trackRuns = TRUE]

NextRerun ==
    \/ Quiet /\ ScanStart(1)
    \/ ScanStep(1, GatewayOutcomes)
    \/ NoShowStart(TRUE)
    \/ NoShowStep
    \/ ArchiveRun(TRUE)

SpecRerun == InitRerun /\ [][NextRerun]_vars

(***************************************************************************)
(* Reschedules of open and closed appointments, one request at a time:     *)
(* appointments 1 and 2 are scheduled at 13:00 and 13:15, appointment 3    *)
(* at 13:15 is closed.                                                     *)
(***************************************************************************)
InitResched ==
    /\ \E m \in {Null, Some(2)} :
           businesses = [b \in Businesses |->
               [timezone |-> "UTC", appointment_settings |-> Settings(m)]]
    /\ customers = <<[business_id |-> 1, phone |-> 1, name |-> "Ann"]>>
    /\ servicesTable = Catalogue
    /\ \E status \in RerunStatuses :
           appointments =
               (1 :> RerunAppointment(1, 780, "scheduled"))
               @@ (2 :> RerunAppointment(2, 795, "scheduled"))
               @@ (3 :> RerunAppointment(3, 795, status))
    /\ nextApptId = 4
    /\ apptServices = {[appointment_id |-> i, line |-> 1, service_id |-> 1,
                        duration_minutes |-> 15] : i \in 1..3}
    /\ messages = <<>>
    /\ automation_rules = Rules(2, 1, FALSE)
    /\ automation_logs = <<>>
    /\ now = 0
    /\ handlers = [h \in Handlers |-> IdleHandler]
    /\ scanners = [s \in Scanners |-> IdleScanner]
    /\ jobs = IdleJobs
    /\ calls = NoCall
    /\ ghost = [InitGhost EXCEPT !.bookedAt = [i \in 1..3 |-> 0]]

NextResched ==
    \/ \E a \in ApptIds, time \in BookTimes :
           ReschedStart(1, TRUE, 1, a, time)
    \/ ReschedStep(1)
    \/ \E a \in ApptIds, status \in LifeStatuses :
           StatusStart(1, TRUE, 1, a, status)
    \/ StatusStep(1)

SpecResched == InitResched /\ [][NextResched]_vars

(***************************************************************************)
(* The no-show scan with requests between its read and its write.          *)
(***************************************************************************)
NextNoShowRace ==
    \/ Quiet /\ Advance(LifeInstants)
    \/ NoShowStart(FALSE)
    \/ NoShowStep
    \/ \E a \in DOMAIN appointments, status \in allowedStatuses :
           StatusStart(1, FALSE, 1, a, status)
    \/ StatusStep(1)
    \/ \E a \in DOMAIN appointments, time \in LifeInstants :
           ReschedStart(1, FALSE, 1, a, time)
    \/ ReschedStep(1)

SpecNoShowRace == InitLife /\ [][NextNoShowRace]_vars

(***************************************************************************)
(* Bookings around midnight: the last slot of a day and the first of the   *)
(* next, one request after another.                                        *)
(***************************************************************************)
\* 23:45 UTC of day 0 and 00:00 UTC of day 1
LateTimes == {1425, 1440}

NextMidnight ==
    \/ \E phone \in BookPhones, name \in BookNames,
          services \in BookServiceLists, time \in LateTimes :
           BookStart(1, TRUE, 1, phone, name, services, time)
    \/ BookFindCustomer(1)
    \/ BookCreateCustomer(1)
    \/ BookReadSettings(1)
    \/ BookCheckCapacity(1)
    \/ BookInsertAppointment(1)
    \/ BookInsertServices(1)
    \/ BookRollback(1)
    \/ BookLogMessage(1)
    \/ BookSend(1)
    \/ \E a \in ApptIds, time \in LateTimes :
           ReschedStart(1, TRUE, 1, a, time)
    \/ ReschedStep(1)

SpecMidnight == InitSeq /\ [][NextMidnight]_vars

(***************************************************************************)
(* Reschedules that are turned down: no time in the body, an id that is    *)
(* not there, an appointment without line items, a full slot.              *)
(***************************************************************************)
\* appointment 3 has no rows in appointment_services; reminders of
\* appointments 1 and 2 are in the log
InitReject ==
    /\ businesses = [b \in Businesses |->
           [timezone |-> "UTC", appointment_settings |-> Settings(Null)]]
    /\ customers = <<[business_id |-> 1, phone |-> 1, name |-> "Ann"]>>
    /\ servicesTable = Catalogue
    /\ \E status \in {"scheduled", "cancelled"} :
           appointments =
               (1 :> RerunAppointment(1, 780, "scheduled"))
               @@ (2 :> RerunAppointment(2, 795, "scheduled"))
               @@ (3 :> RerunAppointment(3, 810, status))
    /\ nextApptId = 4
    /\ apptServices = {[appointment_id |-> i, line |-> 1, service_id |-> 1,
                        duration_minutes |-> 15] : i \in 1..2}
    /\ messages = <<>>
    /\ automation_rules = Rules(2, 1, FALSE)
    /\ automation_logs = (<<1, 1>> :> 1) @@ (<<2, 1>> :> 1) @@ (<<3, 1>> :> 1)
    /\ now = 0
    /\ handlers = [h \in Handlers |-> IdleHandler]
    /\ scanners = [s \in Scanners |-> IdleScanner]
    /\ jobs = IdleJobs
    /\ calls = NoCall
    /\ ghost = [InitGhost EXCEPT !.bookedAt = [i \in 1..3 |-> 0]]

RejectTimes == BookTimes \cup {NoTime}

NextReject ==
    \/ \E a \in ApptIds, time \in RejectTimes :
           ReschedStart(1, TRUE, 1, a, time)
    \/ ReschedStep(1)

SpecReject == InitReject /\ [][NextReject]_vars

(***************************************************************************)
(* The retry scan on its timer: setInterval starts a pass every five       *)
(* minutes for as long as the process runs, and every await of a pass      *)
(* returns, so each step of the scan that can be taken is taken.           *)
(***************************************************************************)
NextRetryFair ==
    \/ RetrySelect(TRUE, ghost)
    \/ RetryMarkRetrying
    \/ RetryFail

SpecRetryFair ==
    /\ InitRetry
    /\ [][NextRetryFair]_vars
    /\ WF_vars(RetrySelect(TRUE, ghost))
    /\ WF_vars(RetryMarkRetrying)
    /\ WF_vars(RetryFail)

(***************************************************************************)
(* Properties                                                              *)
(***************************************************************************)
Done(h, op, code) ==
    /\ handlers[h].pc = "done"
    /\ handlers[h].op = op
    /\ handlers[h].resp = code

\* the scheduled appointments of the business of row a that cover slot on
\* a's UTC day
Covering(a, slot) ==
    {x \in DayAppointments(a.business_id, a.appointment_time, 0) :
        slot \in Range(getSlotRange(UTCMinutes(x.appointment_time),
                                    x.duration_minutes))}

\* no slot of any day carries more scheduled appointments than the
\* business allows
NoSlotOverbooked ==
    \A a \in ApptRows :
        a.status = "scheduled" =>
            \A slot \in Range(getSlotRange(UTCMinutes(a.appointment_time),
                                           a.duration_minutes)) :
                Cardinality(Covering(a, slot)) <= MaxPerSlotOf(a.business_id)

\* C1: two booking or reschedule requests of one tenant that run
\* concurrently and share a slot do not both succeed when that puts more
\* than max_appointments_per_slot scheduled appointments on the slot: when
\* both handlers have answered 200, no slot is overbooked.
C1_ConcurrentRequestsNeverOverbook ==
    (\A h \in Handlers :
        Done(h, "book", 200) \/ Done(h, "reschedule", 200))
    => NoSlotOverbooked

\* C2: bookings of one tenant for one single slot, issued one after
\* another with k = max_appointments_per_slot: the accepted ones are
\* exactly the first k (never more than k are accepted, and none is
\* rejected before k were accepted), and the appointment rows are those of
\* the accepted bookings, so a rejected booking leaves no row.
C2_FirstKAcceptedThenRejected ==
    (Quiet /\ ghost.pure) =>
        /\ ghost.n200 <= MaxPerSlotOf(1)
        /\ ghost.n409 > 0 => ghost.n200 = MaxPerSlotOf(1)
        /\ Cardinality(DOMAIN appointments) = ghost.n200
        /\ \A h \in Handlers :
               Done(h, "book", 409) => "appointments" \notin handlers[h].wrote

\* the third booking of a slot that allows two has been rejected
C2_Witness ==
    /\ Quiet /\ ghost.pure
    /\ MaxPerSlotOf(1) = 2
    /\ ghost.n200 = 2 /\ ghost.n409 = 1
    /\ \E h \in Handlers : Done(h, "book", 409)

\* C3: a POST /appointments answered 409 has written nothing: not to
\* customers, appointments, appointment_services or messages.
C3_RejectedBookingWritesNothing ==
    \A h \in Handlers : Done(h, "book", 409) => handlers[h].wrote = {}

\* C4: no operation observes a scheduled appointment without line items
\* (here: no capacity read of a request counts such a row), and once a
\* booking has answered 500 its appointment row is gone.
C4_NoPartialAppointmentObservable ==
    /\ \A h \in Handlers :
           handlers[h].pc \in {"b_capacity", "r_capacity"} =>
               \A a \in DayAppointments(handlers[h].business,
                                        handlers[h].time, handlers[h].apptId) :
                   LineItems(a.id) # {}
    /\ \A h \in Handlers :
           (Done(h, "book", 500) /\ handlers[h].apptId # 0) =>
               handlers[h].apptId \notin DOMAIN appointments

HandlersResting == \A h \in Handlers : Resting(h)

\* the (appointment, rule) pair a pass is working on
PairOf(s) == <<Head(scanners[s].apptQueue).id, Head(scanners[s].ruleQueue).id>>

Pairs == (DOMAIN appointments) \X (DOMAIN automation_rules)

\* C5: two passes of the automation scan, one after the other, over a
\* scheduled appointment that stays in the rule's window: at most one
\* reminder is dispatched (accepted by the gateway) for the pair since the
\* appointment's time was set, and at most one automation_logs row is left.
C5_SequentialPassesDispatchOnce ==
    \A k \in Pairs : SentCount(k[1], k[2]) <= 1 /\ LogCount(k[1], k[2]) <= 1

\* a second pass finds the row the first one wrote and skips the send
C5_Witness ==
    \E s \in Scanners :
        /\ scanners[s].pc = "check"
        /\ PairOf(s)[1] \notin ghost.moved
        /\ AlreadySent(PairOf(s)[1], PairOf(s)[2])
        /\ SentCount(PairOf(s)[1], PairOf(s)[2]) = 1

\* C6: automation_logs holds at most one row per (appointment, rule) pair
\* in every reachable state, whatever the interleaving of scan passes,
\* reschedules and status updates.
C6_AtMostOneLogRowPerPair ==
    \A k \in DOMAIN automation_logs : automation_logs[k] <= 1

\* C7: the scan writes the automation_logs row of a pair only after a send
\* for it that the gateway answered 'submitted': a pass is at the insert
\* only with that answer, a pair whose sends all failed has no row, and a
\* pass that finds such a pair's appointment in the window goes on to send.
C7_LogOnlyAfterSubmitted ==
    /\ [](\A s \in Scanners :
            scanners[s].pc = "log" => scanners[s].result = "submitted")
    /\ [](\A k \in Pairs :
            LogCount(k[1], k[2]) > 0 => k \in ghost.everSubmitted)
    /\ [][\A s \in Scanners :
            (/\ scanners[s].pc = "check"
             /\ PairOf(s) \notin ghost.everSubmitted
             /\ scanners'[s] # scanners[s])
            => scanners'[s].pc = "send"]_vars

\* after a failed send a later look at the pair sends again
C7_Witness ==
    \E s \in Scanners :
        /\ scanners[s].pc = "send"
        /\ PairOf(s) \in ghost.failed
        /\ PairOf(s) \notin ghost.everSubmitted
        /\ LogCount(PairOf(s)[1], PairOf(s)[2]) = 0

\* the pass of minute m has run to its end
PassDone(m) == now > m \/ (now = m /\ ghost.ran /\ ScannerIdle(1))

\* the appointment was booked more than the rule's offset before its
\* start, has stayed scheduled and was never rescheduled; the rule is on
Undisturbed(a, r) ==
    /\ a \notin ghost.moved
    /\ a \notin ghost.touched
    /\ appointments[a].status = "scheduled"
    /\ automation_rules[r].enabled
    /\ appointments[a].appointment_time - ghost.bookedAt[a]
           > automation_rules[r].offset_minutes

\* C8: with one pass per minute and a gateway that answers 'submitted',
\* the reminder of every undisturbed (appointment, rule) pair is dispatched
\* exactly once: never twice, and once the pass of the minute
\* start - offset is over it has been dispatched.
C8_ReminderExactlyOnce ==
    \A k \in Pairs :
        Undisturbed(k[1], k[2]) =>
            /\ SentCount(k[1], k[2]) <= 1
            /\ PassDone(appointments[k[1]].appointment_time
                            - automation_rules[k[2]].offset_minutes)
                   => SentCount(k[1], k[2]) = 1

\* both passes whose window holds the start are over, for an appointment
\* booked while the cron was running
C8_Witness ==
    \E k \in Pairs :
        /\ Undisturbed(k[1], k[2])
        /\ ghost.bookedAt[k[1]] > 0
        /\ PassDone(appointments[k[1]].appointment_time
                        - automation_rules[k[2]].offset_minutes + 1)
        /\ SentCount(k[1], k[2]) = 1

\* C9: when a reschedule answers 200 no automation_logs row of the
\* appointment is left, and a later pass that finds the rescheduled
\* appointment in a rule's window, with no reminder dispatched since the
\* reschedule, goes on to send.
C9_RescheduleClearsLogs ==
    /\ [][\A h \in Handlers :
            (handlers[h].pc = "r_clearLogs" /\ handlers'[h].pc = "done")
            => \A k \in DOMAIN automation_logs' : k[1] # handlers[h].apptId]_vars
    /\ [](HandlersResting =>
            \A k \in Pairs : LogCount(k[1], k[2]) > 0 => SentCount(k[1], k[2]) > 0)
    /\ [][\A s \in Scanners :
            (/\ scanners[s].pc = "check"
             /\ PairOf(s)[1] \in ghost.moved
             /\ SentCount(PairOf(s)[1], PairOf(s)[2]) = 0
             /\ scanners'[s] # scanners[s])
            => scanners'[s].pc = "send"]_vars

\* a pair whose row a reschedule deleted has its reminder dispatched again
C9_Witness ==
    \E k \in ghost.cleared :
        /\ \E h \in Handlers : Done(h, "reschedule", 200) /\ handlers[h].apptId = k[1]
        /\ SentCount(k[1], k[2]) = 1
        /\ LogCount(k[1], k[2]) = 1

\* C10: a pass sends a rule's reminder only for an appointment whose start,
\* as the pass read it, lies in [now + offset - 1, now + offset] for the
\* pass's now; so for an appointment that was never rescheduled no pass
\* whose window is already past the start sends.
C10_DispatchOnlyInsideWindow ==
    \A s \in Scanners :
        scanners[s].pc = "send" =>
            LET a == Head(scanners[s].apptQueue)
                off == Head(scanners[s].ruleQueue).offset_minutes
            IN  /\ a.appointment_time >= scanners[s].now + off - 1
                /\ a.appointment_time <= scanners[s].now + off
                /\ a.id \notin ghost.moved =>
                       ~(scanners[s].now + off - 1
                             > appointments[a.id].appointment_time)

\* the window of rule 1 has passed after a failed send, and a later pass
\* is already beyond rule 1 without having sent
C10_Witness ==
    \E s \in Scanners :
        /\ scanners[s].pc = "query"
        /\ Head(scanners[s].ruleQueue).id = 2
        /\ 1 \notin ghost.moved
        /\ appointments[1].status = "scheduled"
        /\ <<1, 1>> \in ghost.failed
        /\ <<1, 1>> \notin ghost.everSubmitted
        /\ scanners[s].now + automation_rules[1].offset_minutes - 1
               > appointments[1].appointment_time

\* C11: the no-show scan decides each scheduled appointment of a tenant by
\* appointment_time + grace < now, for the now of the pass and the tenant's
\* no_show_grace_minutes (30 when unset): its update sets exactly the
\* overdue scheduled appointments to no_show and leaves every other row as
\* it was, and it skips the update only when no scheduled appointment of the
\* tenant is overdue.
C11_NoShowAtGraceBoundary ==
    /\ [][(jobs.noshow.pc = "n_update" /\ jobs'.noshow # jobs.noshow) =>
            LET b == Head(jobs.noshow.bizQueue).id
                grace == GraceOf(businesses[b].appointment_settings)
            IN  \A a \in DOMAIN appointments :
                    IF /\ appointments[a].business_id = b
                       /\ appointments[a].status = "scheduled"
                       /\ appointments[a].appointment_time + grace
                              < jobs.noshow.now
                    THEN appointments'[a] =
                             [appointments[a] EXCEPT !.status = "no_show"]
                    ELSE appointments'[a] = appointments[a]]_vars
    /\ [][(/\ jobs.noshow.pc = "n_query"
           /\ jobs'.noshow # jobs.noshow
           /\ jobs'.noshow.pc # "n_update") =>
            LET b == Head(jobs.noshow.bizQueue).id
                grace == GraceOf(businesses[b].appointment_settings)
            IN  /\ appointments' = appointments
                /\ \A a \in DOMAIN appointments :
                       (/\ appointments[a].business_id = b
                        /\ appointments[a].status = "scheduled")
                       => appointments[a].appointment_time + grace
                              >= jobs.noshow.now]_vars

\* a pass at the first instant after the grace of appointment 1 has made it
\* no_show and left appointment 2, whose grace ends at that instant
C11_Witness ==
    /\ jobs.noshow.pc = "idle"
    /\ ghost.moved = {} /\ ghost.touched = {}
    /\ LET grace == GraceOf(businesses[1].appointment_settings)
       IN  /\ appointments[1].status = "no_show"
           /\ appointments[1].appointment_time + grace + 1 = now
           /\ appointments[2].status = "scheduled"
           /\ appointments[2].appointment_time + grace = now

\* C12: a run of the archival sets archived_at, to a non-null instant, on
\* exactly the appointments that are cancelled or no_show, started more than
\* 5 days before the run and have archived_at = null; every other row is
\* left as it was, and no other step changes archived_at.
C12_ArchivalExactlyOldClosed ==
    /\ [][ghost'.archiveRuns # ghost.archiveRuns =>
            \A a \in DOMAIN appointments :
                IF /\ appointments[a].status \in {"cancelled", "no_show"}
                   /\ now - appointments[a].appointment_time
                          > RETENTION_DAYS * MINUTES_PER_DAY
                   /\ appointments[a].archived_at = Null
                THEN /\ appointments'[a].archived_at # Null
                     /\ appointments'[a] =
                            [appointments[a] EXCEPT
                                !.archived_at = appointments'[a].archived_at]
                ELSE appointments'[a] = appointments[a]]_vars
    /\ [][ghost'.archiveRuns = ghost.archiveRuns =>
            \A a \in DOMAIN appointments \cap DOMAIN appointments' :
                appointments'[a].archived_at = appointments[a].archived_at]_vars

\* a run has archived one closed appointment and left another that is
\* exactly 5 days old
C12_Witness ==
    /\ \E a \in DOMAIN appointments :
           /\ appointments[a].archived_at = Some(now)
           /\ appointments[a].status \in {"cancelled", "no_show"}
    /\ \E a \in DOMAIN appointments :
           /\ appointments[a].archived_at = Null
           /\ appointments[a].status \in {"cancelled", "no_show"}
           /\ now - appointments[a].appointment_time
                  = RETENTION_DAYS * MINUTES_PER_DAY

\* C13: a status request changes an appointment's status only from
\* scheduled and only to completed, no_show or cancelled; a request with
\* another target is answered 400 and changes nothing.
C13_StatusOnlyFromScheduled ==
    /\ [][\A h \in Handlers :
            (/\ handlers[h].pc = "s_update"
             /\ handlers'[h].pc = "done"
             /\ handlers[h].apptId \in DOMAIN appointments
             /\ appointments'[handlers[h].apptId].status
                    # appointments[handlers[h].apptId].status)
            => /\ appointments[handlers[h].apptId].status = "scheduled"
               /\ handlers[h].target \in allowedStatuses]_vars
    /\ [][\A h \in Handlers :
            (/\ Resting(h)
             /\ handlers'[h] # handlers[h]
             /\ handlers'[h].op = "status"
             /\ handlers'[h].target \notin allowedStatuses)
            => /\ handlers'[h].resp = 400
               /\ appointments' = appointments]_vars

\* C14: no appointment is created at, or moved to, a start time that is not
\* strictly after the clock at the moment of the write: a booking or a
\* reschedule whose target time is at or before now writes nothing.
C14_NoWriteOfPastStart ==
    [][\A a \in DOMAIN appointments' :
          (\/ a \notin DOMAIN appointments
           \/ appointments'[a].appointment_time
                  # appointments[a].appointment_time)
          => appointments'[a].appointment_time > now]_vars

\* C15: every persisted line item has a positive duration, an accepted
\* booking has at least one line item, and a request whose services list
\* holds a duration that is not positive is answered 400 at once, before
\* any store call.
C15_OnlyPositiveLineItems ==
    /\ \A li \in apptServices : li.duration_minutes > 0
    /\ \A h \in Handlers :
           Done(h, "book", 200) => LineItems(handlers[h].apptId) # {}
    /\ \A h \in Handlers :
           (/\ handlers[h].op = "book"
            /\ handlers[h].pc # "idle"
            /\ \E i \in DOMAIN handlers[h].services :
                   handlers[h].services[i].duration_minutes <= 0)
           => handlers[h].pc = "done" /\ handlers[h].resp = 400

\* C16: a pass of the retry scan takes only messages that are failed with
\* retry_count < 3, at most 10 of them, and changes no other message;
\* retry_count never exceeds 3; a message that is failed with
\* retry_count = 3 never changes again.
C16_RetryCeilingAndBatch ==
    /\ [][(jobs.retry.pc = "idle" /\ jobs'.retry.pc # "idle") =>
            /\ Len(jobs'.retry.queue) <= RETRY_BATCH
            /\ \A k \in DOMAIN jobs'.retry.queue :
                   /\ messages[jobs'.retry.queue[k].id].status = "failed"
                   /\ messages[jobs'.retry.queue[k].id].retry_count < 3]_vars
    /\ [][\A i \in DOMAIN messages :
            messages'[i] # messages[i] =>
                /\ jobs.retry.pc # "idle"
                /\ Head(jobs.retry.queue).id = i]_vars
    /\ [](\A i \in DOMAIN messages : messages[i].retry_count <= 3)
    /\ [][\A i \in DOMAIN messages :
            (messages[i].status = "failed" /\ messages[i].retry_count = 3)
            => messages'[i] = messages[i]]_vars

\* a message the scan has brought to retry_count 3 is left out of a later
\* pass that is at work on other messages
C16_Witness ==
    /\ jobs.retry.pc # "idle"
    /\ \E i \in DOMAIN messages :
           /\ messages[i].status = "failed"
           /\ messages[i].retry_count = 3
           /\ messages[i].error # Null
           /\ \A k \in DOMAIN jobs.retry.queue : jobs.retry.queue[k].id # i

\* C17: a message the retry scan picked leaves the status retrying only
\* after exactly one gateway resend for it in that pass, to sent with its
\* retry_count unchanged or to failed with retry_count one higher and the
\* error text recorded.
C17_RetryResendsOnce ==
    [][\A i \in DOMAIN messages :
          (messages[i].status = "retrying" /\ messages'[i].status # "retrying")
          => /\ i \in ghost.resent
             /\ \/ /\ messages'[i].status = "sent"
                   /\ messages'[i].retry_count = messages[i].retry_count
                \/ /\ messages'[i].status = "failed"
                   /\ messages'[i].retry_count = messages[i].retry_count + 1
                   /\ messages'[i].error # Null]_vars

\* C18: when the gateway fails the send of a booking or reschedule
\* confirmation, the request still answers 200 with the appointment in the
\* store, and the message row of that confirmation has status failed and a
\* retry_count below 3 once the request has answered.
C18_FailedConfirmationIsRetryTracked ==
    /\ \A h \in Handlers :
           (Done(h, "book", 200) \/ Done(h, "reschedule", 200))
           => handlers[h].apptId \in DOMAIN appointments
    /\ HandlersResting =>
           \A m \in {m \in ghost.confirmFailed :
                        messages[m].message_type = "system"} :
               /\ messages[m].status = "failed"
               /\ messages[m].retry_count < RETRY_CEILING

\* the enabled flag of the business's rule of a type
RuleEnabled(b, rule_type) ==
    {automation_rules[r].enabled :
        r \in {r \in DOMAIN automation_rules :
                  /\ automation_rules[r].business_id = b
                  /\ automation_rules[r].rule_type = rule_type}}

\* C19: whenever no settings update or rule edit is in flight, the tenant's
\* reminder_24h setting equals the enabled flag of its reminder_24h rule and
\* its reminder_2h setting equals the enabled flag of its reminder_2h rule.
C19_TogglesMatchRules ==
    HandlersResting =>
        \A b \in Businesses :
            /\ RuleEnabled(b, "reminder_24h")
                   = {businesses[b].appointment_settings.reminder_24h[1]}
            /\ RuleEnabled(b, "reminder_2h")
                   = {businesses[b].appointment_settings.reminder_2h[1]}

\* C20: a failure while one rule or appointment is processed does not stop
\* the automation pass: a pass ends only when no business is left to visit
\* and no rule left in its queue has an appointment in its window.
C20_FailureDoesNotStopPass ==
    [][\A s \in Scanners :
          (scanners[s].pc # "idle" /\ scanners'[s].pc = "idle") =>
              /\ Len(scanners[s].bizQueue) <= 1
              /\ \A k \in 2..Len(scanners[s].ruleQueue) :
                     WindowAppointments(Head(scanners[s].bizQueue),
                         scanners[s].now,
                         scanners[s].ruleQueue[k].offset_minutes) = {}]_vars

\* the 15-minute slots that the minutes [s, s + d) of a day touch
SlotsTouched(s, d) ==
    {k \in 0..((s + d) \div SLOT_SIZE_MINUTES) :
        \E m \in s..(s + d - 1) :
            SLOT_SIZE_MINUTES * k <= m /\ m < SLOT_SIZE_MINUTES * (k + 1)}

\* C21: for every start minute s of a day and every duration d > 0,
\* getSlotRange(s, d) is a list of ceil(d/15) consecutive integers that
\* begins at floor(s/15).
C21_SlotRangeIsCeilFromFloor ==
    (calls.fn = "getSlotRange" /\ calls.result # Null) =>
        LET s == calls.startMinutes
            d == calls.durationMinutes
            range == calls.result[1]
            n == Len(range)
        IN  /\ SLOT_SIZE_MINUTES * (n - 1) < d
            /\ d <= SLOT_SIZE_MINUTES * n
            /\ SLOT_SIZE_MINUTES * range[1] <= s
            /\ s < SLOT_SIZE_MINUTES * (range[1] + 1)
            /\ \A i \in 1..(n - 1) : range[i + 1] = range[i] + 1

\* a range of several slots from a start that is not on a slot boundary
C21_Witness ==
    /\ calls.fn = "getSlotRange"
    /\ calls.result # Null
    /\ calls.startMinutes = 787
    /\ calls.durationMinutes = 31
    /\ calls.result[1] = <<52, 53, 54>>

\* C22: for every start minute s, on a slot boundary or not, and every
\* duration d > 0, the range of getSlotRange and the range the capacity
\* check visits contain every slot that [s, s + d) overlaps.
C22_RangeCoversEveryTouchedSlot ==
    (calls.fn # "" /\ calls.result # Null) =>
        SlotsTouched(calls.startMinutes, calls.durationMinutes)
            \subseteq Range(calls.result[1])

\* does the row's interval [start, start + duration) overlap the slot
RowCovers(a, slot) ==
    LET start == a.appointment_time
                     - MINUTES_PER_DAY * (a.appointment_time \div MINUTES_PER_DAY)
    IN  /\ SLOT_SIZE_MINUTES * slot < start + a.duration_minutes
        /\ start < SLOT_SIZE_MINUTES * (slot + 1)

\* C23: for N pairwise non-overlapping appointments of one duration that
\* start on slot boundaries of one day, buildSlotLoadMap gives load exactly 1
\* to every slot one of them covers and no entry to any other slot, and it
\* leaves its input as it was.
C23_LoadOneOnCoveredSlotsOnly ==
    /\ [](calls.fn = "buildSlotLoadMap" /\ calls.result # Null =>
            LET slotLoad == calls.result[1]
            IN  /\ \A slot \in 0..(MINUTES_PER_DAY \div SLOT_SIZE_MINUTES + 2) :
                       IF \E a \in calls.appointments : RowCovers(a, slot)
                       THEN slot \in DOMAIN slotLoad /\ slotLoad[slot] = 1
                       ELSE slot \notin DOMAIN slotLoad
                /\ \A slot \in DOMAIN slotLoad :
                       \E a \in calls.appointments : RowCovers(a, slot))
    /\ [][calls.fn = "buildSlotLoadMap" =>
            /\ calls'.appointments = calls.appointments
            /\ UNCHANGED storeVars]_vars

\* three appointments of 30 minutes, two of them back to back
C23_Witness ==
    /\ calls.fn = "buildSlotLoadMap"
    /\ calls.result # Null
    /\ Cardinality(calls.appointments) = 3
    /\ \A a \in calls.appointments : a.duration_minutes = 30
    /\ DOMAIN calls.result[1] = {0, 1, 2, 3, 95, 96}

\* the load map of the scheduled appointments of business b on a day, the
\* excluded appointment left out
LoadOfDay(b, date, exclude) ==
    buildSlotLoadMap(DayAppointments(b, MINUTES_PER_DAY * date, exclude))

\* C24: an availability answer for duration d has an entry for exactly the
\* starts 0, 15, 30, ... with start + d <= 1440; the entry of a start is
\* true if and only if every slot of getSlotRange(start, d) has a load
\* strictly below max_appointments_per_slot; the request changes no stored
\* state.
C24_AvailabilityIsExactlyTheFreeStarts ==
    /\ [](\A h \in Handlers :
            (/\ handlers[h].op = "avail"
             /\ handlers[h].pc = "done"
             /\ handlers[h].resp = 200) =>
                LET r == handlers[h]
                    d == r.total
                    slotLoad == LoadOfDay(r.business, r.time, r.apptId)
                    maxPerSlot == MaxPerSlotOf(r.business)
                IN  /\ \A m \in 0..(MINUTES_PER_DAY + SLOT_SIZE_MINUTES) :
                           m \in DOMAIN r.json <=>
                               /\ m % SLOT_SIZE_MINUTES = 0
                               /\ m + d <= MINUTES_PER_DAY
                    /\ DOMAIN r.json \subseteq
                           0..(MINUTES_PER_DAY + SLOT_SIZE_MINUTES)
                    /\ \A m \in DOMAIN r.json :
                           r.json[m] <=>
                               \A slot \in Range(getSlotRange(m, d)) :
                                   LoadAt(slotLoad, slot) < maxPerSlot)
    /\ [][(\E h \in Handlers :
              handlers[h].op = "avail" /\ handlers'[h] # handlers[h]
              /\ ~Resting(h))
          => UNCHANGED storeVars]_vars

\* an answer with both free and taken starts
C24_Witness ==
    /\ handlers[1].op = "avail"
    /\ handlers[1].pc = "done"
    /\ handlers[1].resp = 200
    /\ handlers[1].total = 30
    /\ \E m1, m2 \in DOMAIN handlers[1].json :
           handlers[1].json[m1] /\ ~handlers[1].json[m2]

\* the scheduled appointments of the request's tenant and day whose slot
\* range shares a slot with the slot range of the request of handler h
SharingSlot(h) ==
    LET r == handlers[h]
        mine == Range(getSlotRange(UTCMinutes(r.time), r.total))
    IN  {a \in ApptRows :
            /\ a.business_id = r.business
            /\ a.status = "scheduled"
            /\ a.appointment_time \div MINUTES_PER_DAY
                   = r.time \div MINUTES_PER_DAY
            /\ mine \cap Range(getSlotRange(UTCMinutes(a.appointment_time),
                                            a.duration_minutes)) # {}}

\* C25: with max_appointments_per_slot = 1 and requests one after another,
\* a booking whose slot range shares at least one slot with a scheduled
\* appointment of the tenant on that day is answered 409 by the capacity
\* check and inserts no appointment; so after 13:00 for 30 minutes is booked,
\* 13:15 for 30 minutes is rejected.
C25_SharedSlotRejected ==
    [][\A h \in Handlers :
          (/\ handlers[h].pc = "b_capacity"
           /\ handlers'[h] # handlers[h]
           /\ MaxPerSlotOf(handlers[h].business) = 1
           /\ SharingSlot(h) # {}) =>
              /\ handlers'[h].pc = "done"
              /\ handlers'[h].resp = 409
              /\ appointments' = appointments]_vars

\* 13:00 for 30 minutes is booked and 13:15 for 30 minutes has been rejected
C25_Witness ==
    /\ MaxPerSlotOf(1) = 1
    /\ \E a \in ApptRows :
           /\ a.appointment_time = 780
           /\ a.duration_minutes = 30
           /\ a.status = "scheduled"
    /\ Done(1, "book", 409)
    /\ ghost.n409 = 1
    /\ \A a \in ApptRows : a.appointment_time # 795

\* C26: once a customer row has a non-empty name no step changes it, also
\* when two bookings with different names run together for a customer
\* whose name is still empty.
C26_NameNeverOverwritten ==
    [][\A c \in DOMAIN customers :
          customers[c].name # "" => customers'[c].name = customers[c].name]_vars

\* C27: there is at most one customer row per (business, phone).
C27_OneCustomerPerPhone ==
    \A c1, c2 \in DOMAIN customers :
        (/\ customers[c1].business_id = customers[c2].business_id
         /\ customers[c1].phone = customers[c2].phone) => c1 = c2

\* C28: when no request is in flight, every appointment's duration_minutes
\* is the sum of the durations of its own line items; a service edit
\* changes neither a line item nor an appointment.
C28_DurationIsSumOfLineItems ==
    /\ [](HandlersResting =>
            \A a \in ApptRows :
                a.duration_minutes = SumLineItems(LineItems(a.id)))
    /\ [][(\E h \in Handlers :
              handlers[h].op = "service" /\ handlers'[h] # handlers[h]
              /\ ~Resting(h))
          => /\ appointments' = appointments
             /\ apptServices' = apptServices]_vars

\* a service now lasts 45 minutes; an appointment of two line items, booked
\* before and rescheduled after the edit, still lasts 30
C28_Witness ==
    /\ HandlersResting
    /\ servicesTable[1].duration_minutes = 45
    /\ handlers[1].op = "reschedule"
    /\ handlers[1].resp = 200
    /\ \E a \in ApptRows :
           /\ a.id = handlers[1].apptId
           /\ a.duration_minutes = 30
           /\ Cardinality(LineItems(a.id)) = 2

\* this step belongs to a run of the scan that follows a run of the same
\* scan with nothing in between (the start of the run included)
RerunStep(kind) ==
    /\ ghost'.lastRun = kind
    /\ ghost'.runCount = 2
    /\ \/ ghost'.archiveRuns # ghost.archiveRuns
       \/ scanners' # scanners
       \/ jobs' # jobs

\* C29 as stated: on a clock that stands still, no step of a second run of
\* the archival, no-show or automation scan right after a first run changes
\* a stored row or sends a message.
C29_SecondRunChangesNothing ==
    [][(\E kind \in {"archival", "no_show", "automation"} : RerunStep(kind))
       => /\ UNCHANGED storeVars
          /\ \A s \in Scanners : scanners'[s].pc # "send"]_vars

\* C29, amended: on a clock that stands still, a second run of the
\* archival or of the no-show scan right after a first run changes no stored
\* row; a second run of the automation scan changes no row but
\* automation_logs; every (appointment, rule) pair for which the gateway
\* accepted a send has its log row when the run is over, and for a pair
\* with a log row the second run neither sends again nor changes the row
\* (a pair whose send failed has no row and is sent again).
C29_SecondRunRepeatsOnlyFailedSends ==
    /\ [][(RerunStep("archival") \/ RerunStep("no_show"))
          => UNCHANGED storeVars]_vars
    /\ [](ScannerIdle(1) =>
            \A k \in Pairs :
                SentCount(k[1], k[2]) >= 1 => LogCount(k[1], k[2]) = 1)
    /\ [][RerunStep("automation") =>
            /\ UNCHANGED <<businesses, customers, servicesTable,
                           appointments, nextApptId, apptServices, messages,
                           automation_rules>>
            /\ \A k \in Pairs :
                   LogCount(k[1], k[2]) >= 1 =>
                       /\ ghost'.sent[k] = ghost.sent[k]
                       /\ automation_logs'[k] = automation_logs[k]
                       /\ \A s \in Scanners :
                              (scanners'[s].pc = "send"
                               /\ scanners[s].pc # "send")
                                  => <<Head(scanners'[s].apptQueue).id,
                                       Head(scanners'[s].ruleQueue).id>> # k]_vars

\* a second automation run in a row is looking at a pair the first run
\* sent and logged, after archival and no-show have run
C29_Witness ==
    /\ ghost.lastRun = "automation"
    /\ ghost.runCount = 2
    /\ scanners[1].pc = "check"
    /\ SentCount(PairOf(1)[1], PairOf(1)[2]) = 1
    /\ LogCount(PairOf(1)[1], PairOf(1)[2]) = 1
    /\ appointments[2].status = "no_show"
    /\ appointments[3].archived_at # Null

\* the scheduled appointments of the business on the day of instant t,
\* other than appointment id, whose interval holds slot
OthersInSlot(b, id, t, slot) ==
    {a \in ApptRows :
        /\ a.id # id
        /\ a.business_id = b
        /\ a.status = "scheduled"
        /\ a.appointment_time \div MINUTES_PER_DAY = t \div MINUTES_PER_DAY
        /\ slot \in Range(getSlotRange(UTCMinutes(a.appointment_time),
                                       a.duration_minutes))}

\* C30: with requests one at a time, a reschedule answered 200 has written
\* the appointment and leaves it with status scheduled, whatever its status
\* was; the write happens only when every slot of the new range holds fewer
\* than max_appointments_per_slot other scheduled appointments of that day.
C30_RescheduleResetsStatusAfterCapacity ==
    /\ [](\A h \in Handlers :
            Done(h, "reschedule", 200) =>
                /\ "appointments" \in handlers[h].wrote
                /\ appointments[handlers[h].apptId].status = "scheduled")
    /\ [][\A h \in Handlers :
            (/\ handlers[h].op = "reschedule"
             /\ appointments' # appointments) =>
                LET r == handlers[h]
                IN  /\ appointments'[r.apptId].status = "scheduled"
                    /\ appointments'[r.apptId].appointment_time = r.time
                    /\ \A slot \in Range(getSlotRange(UTCMinutes(r.time),
                           appointments'[r.apptId].duration_minutes)) :
                           Cardinality(OthersInSlot(r.business, r.apptId,
                                                    r.time, slot))
                               < MaxPerSlotOf(r.business)]_vars

\* the closed appointment 3 has been moved to 13:00 and is scheduled again
C30_Witness ==
    /\ Done(1, "reschedule", 200)
    /\ handlers[1].apptId = 3
    /\ ghost.touched = {1}
    /\ appointments[3].status = "scheduled"
    /\ appointments[3].appointment_time = 780
    /\ appointments[1].status = "cancelled"
    /\ MaxPerSlotOf(1) = 1

\* C31: the capacity check of a reschedule does not count the appointment
\* being rescheduled: when no other scheduled appointment of the day holds
\* a slot of the new range, the check passes, also with
\* max_appointments_per_slot = 1 and a new range that overlaps the
\* appointment's own current range.
C31_RescheduleIgnoresOwnRow ==
    [][\A h \in Handlers :
          (/\ handlers[h].pc = "r_capacity"
           /\ handlers'[h] # handlers[h]
           /\ \A slot \in Range(getSlotRange(UTCMinutes(handlers[h].time),
                                             handlers[h].total)) :
                  OthersInSlot(handlers[h].business, handlers[h].apptId,
                               handlers[h].time, slot) = {})
          => handlers'[h].pc = "r_update"]_vars

\* the only appointment, 30 minutes at 13:00, was moved to 13:15, into its
\* own second slot, with one appointment allowed per slot
C31_Witness ==
    /\ Done(1, "reschedule", 200)
    /\ MaxPerSlotOf(1) = 1
    /\ DOMAIN appointments = {1}
    /\ appointments[1].status = "scheduled"
    /\ appointments[1].duration_minutes = 30
    /\ appointments[1].appointment_time = 795
    /\ ghost.nreq = 2

\* C32: the no-show scan sets an appointment to no_show only if, at the
\* moment of the write, the appointment is scheduled and its start plus the
\* grace lies before the scan's now.
C32_NoShowOnlyIfStillScheduledAndOverdue ==
    [][(jobs.noshow.pc = "n_update" /\ jobs'.noshow # jobs.noshow) =>
          \A a \in jobs.noshow.overdueIds :
              (a \in DOMAIN appointments /\ appointments'[a].status = "no_show")
                  => /\ appointments[a].status = "scheduled"
                     /\ jobs.noshow.now > appointments[a].appointment_time
                            + GraceOf(Head(jobs.noshow.bizQueue)
                                          .appointment_settings)]_vars

\* the slots of row a counted from the start of day 0
AbsoluteSlots(a) ==
    {DayOf(a.appointment_time) * (MINUTES_PER_DAY \div SLOT_SIZE_MINUTES) + slot :
        slot \in Range(getSlotRange(UTCMinutes(a.appointment_time),
                                    a.duration_minutes))}

\* C33: every slot index of an accepted booking or reschedule lies in 0..95;
\* an appointment that runs past midnight is rejected, or the slots it
\* holds past midnight are counted against the next day, so no slot of the
\* next day carries more scheduled appointments than the limit (read once
\* every request has been answered).
C33_SlotsWithinDayOrCountedNextDay ==
    HandlersResting => \A id \in DOMAIN appointments :
        LET a == appointments[id]
            perDay == MINUTES_PER_DAY \div SLOT_SIZE_MINUTES
        IN  a.status = "scheduled" =>
                \A slot \in Range(getSlotRange(UTCMinutes(a.appointment_time),
                                               a.duration_minutes)) :
                    \/ slot \in 0..(perDay - 1)
                    \/ Cardinality(
                           {x \in DOMAIN appointments :
                               /\ appointments[x].status = "scheduled"
                               /\ appointments[x].business_id = a.business_id
                               /\ DayOf(a.appointment_time) * perDay + slot
                                      \in AbsoluteSlots(appointments[x])})
                           <= MaxPerSlotOf(a.business_id)

\* C34: a reschedule that is answered 409, 404 or 400 (no time in the body,
\* or no line items) has written nothing: no step of it changed an
\* appointment, a row of automation_logs or a message, and it handed
\* nothing to the gateway.
C34_RejectedRescheduleWritesNothing ==
    [][\A h \in Handlers :
          (handlers'[h] # handlers[h] /\ handlers'[h].op = "reschedule") =>
              /\ (handlers'[h].pc = "done" /\ handlers'[h].resp \in {400, 404, 409})
                     => handlers'[h].wrote = {}
              /\ handlers'[h].wrote = {}
                     => /\ appointments' = appointments
                        /\ automation_logs' = automation_logs
                        /\ messages' = messages
                        /\ handlers[h].pc # "r_send"]_vars

\* three reschedules turned down one after another, the last for a full
\* slot, and the store as it was
C34_Witness ==
    /\ Done(1, "reschedule", 409)
    /\ ghost.nreq = 3
    /\ appointments[1] = RerunAppointment(1, 780, "scheduled")
    /\ appointments[2] = RerunAppointment(2, 795, "scheduled")
    /\ DOMAIN automation_logs = {<<1, 1>>, <<2, 1>>, <<3, 1>>}
    /\ messages = <<>>

\* the message is at the end of its retries
RetrySettled(i) ==
    \/ messages[i].status = "sent"
    \/ messages[i].status = "failed" /\ messages[i].retry_count = RETRY_CEILING

\* C35: with the retry scan running on its timer, every failed message with
\* retry_count < 3 eventually has status sent, or status failed with
\* retry_count = 3; and whenever no pass is running, no message has status
\* retrying.  (A settled message stays settled, so "each message is
\* eventually settled" is "eventually all messages are settled".)
C35_RetriesTerminate ==
    /\ [](jobs.retry.pc = "idle" =>
              \A i \in DOMAIN messages : messages[i].status # "retrying")
    /\ [][\A i \in DOMAIN messages :
              RetrySettled(i) => messages'[i] = messages[i]]_vars
    /\ <>(\A i \in DOMAIN messages : RetrySettled(i))

\* the eleven messages that started failed below the ceiling (more than one
\* pass takes, the first of them with retry_count 0 or 1), all at the
\* ceiling with the error recorded, no pass running
C35_Witness ==
    /\ jobs.retry.pc = "idle"
    /\ \A i \in 1..(RETRY_BATCH + 1) :
           /\ messages[i].status = "failed"
           /\ messages[i].retry_count = RETRY_CEILING
           /\ messages[i].error # Null

\* C36: when a reschedule interleaves with a pass that read the appointment
\* at its old start, then once both are finished the log row of the pair is
\* either absent or was written for a reminder dispatched for the new start:
\* a pass that writes the row after the reschedule has finished writes it
\* for a reminder built from the start time the appointment has now.
C36_LogRowIsForTheNewStart ==
    [][\A s \in Scanners :
          (/\ scanners[s].pc = "log"
           /\ automation_logs' # automation_logs
           /\ Head(scanners[s].apptQueue).id \in ghost.moved
           /\ HandlersResting)
          => Head(scanners[s].apptQueue).appointment_time
                 = appointments[Head(scanners[s].apptQueue).id].appointment_time]_vars

\* C37: after any sequence of status updates, no-show scans, archival runs
\* and reschedules, the reschedule of an archived appointment included,
\* every appointment with status scheduled has archived_at = null.
C37_ScheduledIsNotArchived ==
    \A a \in DOMAIN appointments :
        appointments[a].status = "scheduled" => appointments[a].archived_at = Null

\* the grid GET /appointments/availability answers for the day and the
\* duration of the booking request of handler h
GridFor(h) ==
    AvailabilityOf(LoadOfDay(handlers[h].business, DayOf(handlers[h].time), 0),
                   handlers[h].total, MaxPerSlotOf(handlers[h].business))

\* C38: the availability entry of a start is true exactly when a booking
\* for that start and duration passes the capacity check, and every start
\* the booking accepts for the day and the duration has an entry in the
\* grid.
C38_GridAgreesWithBooking ==
    [][\A h \in Handlers :
          (handlers[h].pc = "b_capacity" /\ handlers'[h] # handlers[h]) =>
              LET s == handlers[h].slot_minutes
                  accepted == handlers'[h].pc = "b_insert"
              IN  /\ s \in DOMAIN GridFor(h) => (GridFor(h)[s] <=> accepted)
                  /\ accepted => s \in DOMAIN GridFor(h)]_vars

\* C39: an outbound message row has status sent only if a gateway send for
\* it returned 'submitted': once the request has answered, no outbound row
\* whose one send the gateway failed has status sent.
C39_SentOnlyIfSubmitted ==
    HandlersResting =>
        \A m \in DOMAIN messages :
            (messages[m].direction = "out" /\ messages[m].status = "sent")
                => m \notin ghost.confirmFailed

\* C40: a reminder is dispatched only for an appointment that is scheduled
\* and a rule that is enabled at the moment of the dispatch.
C40_DispatchOnlyIfScheduledAndEnabled ==
    [][\A s \in Scanners :
          (scanners[s].pc = "send" /\ scanners'[s] # scanners[s]) =>
              /\ appointments[Head(scanners[s].apptQueue).id].status = "scheduled"
              /\ automation_rules[Head(scanners[s].ruleQueue).id].enabled]_vars

====
